---- MODULE Spec2Model ----
(***************************************************************************)
(* contextdb: dense positional identifiers (internal/operations) and the   *)
(* per-document positional index (internal/positioning).                   *)
(*                                                                         *)
(* A string (AuthorID, the byte string fed to a hash) is the sequence of   *)
(* its bytes; a LogootPosition is the sequence of its segments, a segment  *)
(* being [value, author].  SHA3-256/SHA-256 are taken as injective: a hash *)
(* is represented by the byte string (or text) that was fed to it.         *)
(***************************************************************************)
EXTENDS Integers, Sequences, FiniteSets

VARIABLES
    left, right, generated,      \* GeneratePosition: its bounds, and what each author got
    p, q, r, compared,           \* Compare / Key: three positions and the results
    doc, call,                   \* a Document, and the last call made on it
    dag, dagCall,                \* an OperationDAG, and the last call made on it
    resolver, resCall,           \* an AddressResolver, and the last call made on it
    engine, engCall,             \* a CollaborationEngine, and the last call made on it
    snapshot,                    \* a *ResolvedAddress a caller got from ResolveAddress
    clients, bcCall,             \* the engine's client connections, and the last call on them
    locks, threads,              \* the components' RWMutexes, and the goroutines calling in
    shared, procs,               \* the engine's documents under concurrent ProcessOperation calls
    live, workers,               \* one loaded document, its mutex and its stored rows, and the calls on it
    memory, tables, retrieved,   \* a Document, the SQLite tables, and what GetDocument returned
    manager, cmCall,             \* a ConversationManager, and the last call made on it
    registry, goroutines,        \* the engine's client map and presence tracker, and the calls on them
    opSet, replicas, applied     \* a set of operations replayed on two documents

genVars == <<left, right, generated>>
cmpVars == <<p, q, r, compared>>
docVars == <<doc, call>>
convVars == <<opSet, replicas, applied>>
dagVars == <<dag, dagCall>>
resVars == <<resolver, resCall>>
engVars == <<engine, engCall>>
snapVars == <<snapshot>>
bcVars == <<clients, bcCall>>
lockVars == <<locks, threads>>
concVars == <<shared, procs>>
raceVars == <<live, workers>>
storeVars == <<memory, tables, retrieved>>
cmVars == <<manager, cmCall>>
regVars == <<registry, goroutines>>
vars == <<left, right, generated, p, q, r, compared, doc, call,
          opSet, replicas, applied, dag, dagCall, resolver, resCall,
          engine, engCall, snapshot, clients, bcCall, locks, threads,
          shared, procs, live, workers, memory, tables, retrieved,
          manager, cmCall, registry, goroutines>>

(* ------------------------------ bounds --------------------------------- *)

\* Segment values range over 0..MaxValue.
MaxValue == 2
\* Positions drawn as inputs have at most MaxSegs segments.
MaxSegs == 2
\* Compare is exercised on triples of positions with values 0..MaxCmpValue.
MaxCmpValue == 1
\* Calls are made on a document while its Version is below MaxVersion.
MaxVersion == 3
MaxHistory == 2
MaxBroadcasts == 2
\* The capacity of a connection's sendChan (make(chan *Message, 256) in
\* NewClientConnection), scaled down.
SendBufferSize == 2
\* The goroutines that call into the components at the same time.
NumThreads == 3
\* The ProcessOperation calls that run at the same time on one document.
NumCalls == 2
\* The conversation threads that are created.
MaxThreads == 2

(* ------------------------------ strings -------------------------------- *)

\* AuthorID values "a", "b" and "ab" as byte strings.
AuthorA == <<97>>
AuthorB == <<98>>
AuthorAB == <<97, 98>>
Authors == {AuthorA, AuthorB, AuthorAB}

\* Go's comparison of two strings: bytewise, a strict prefix being smaller.
RECURSIVE StrCmp(_, _)
StrCmp(a, b) ==
    IF a = <<>> /\ b = <<>> THEN 0
    ELSE IF a = <<>> THEN -1
    ELSE IF b = <<>> THEN 1
    ELSE IF Head(a) < Head(b) THEN -1
    ELSE IF Head(a) > Head(b) THEN 1
    ELSE StrCmp(Tail(a), Tail(b))

\* big.Int.Bytes(): the big-endian bytes of the absolute value, none for 0.
RECURSIVE NatBytes(_)
NatBytes(n) ==
    IF n = 0 THEN <<>> ELSE Append(NatBytes(n \div 256), n % 256)

IntBytes(v) == IF v < 0 THEN NatBytes(-v) ELSE NatBytes(v)

(* ----------------------------- positions ------------------------------- *)

PositionSegment(v, a) == [value |-> v, author |-> a]

\* computeHash: what the hasher is fed, segment after segment.
RECURSIVE HashInput(_)
HashInput(segments) ==
    IF segments = <<>> THEN <<>>
    ELSE IntBytes(Head(segments).value) \o Head(segments).author
             \o HashInput(Tail(segments))

\* Key returns the hash NewLogootPosition computed; the hash stands for its
\* input.
Key(pos) == HashInput(pos)

Min(a, b) == IF a < b THEN a ELSE b

RECURSIVE CompareNoAuthorFrom(_, _, _)
CompareNoAuthorFrom(pos, other, i) ==
    IF i > Min(Len(pos), Len(other))
    THEN IF Len(pos) < Len(other) THEN -1
         ELSE IF Len(pos) > Len(other) THEN 1
         ELSE 0
    ELSE IF pos[i].value < other[i].value THEN -1
    ELSE IF pos[i].value > other[i].value THEN 1
    ELSE CompareNoAuthorFrom(pos, other, i + 1)

\* Compare without the author tie-break.
CompareNoAuthor(pos, other) == CompareNoAuthorFrom(pos, other, 1)

\* The loop of Compare from segment i on, then the length rule.
RECURSIVE CompareFrom(_, _, _)
CompareFrom(pos, other, i) ==
    IF i > Min(Len(pos), Len(other))
    THEN IF Len(pos) < Len(other) THEN -1
         ELSE IF Len(pos) > Len(other) THEN 1
         ELSE 0
    ELSE IF pos[i].value < other[i].value THEN -1
    ELSE IF pos[i].value > other[i].value THEN 1
    ELSE IF StrCmp(pos[i].author, other[i].author) < 0 THEN -1
    ELSE IF StrCmp(pos[i].author, other[i].author) > 0 THEN 1
    ELSE CompareFrom(pos, other, i + 1)

Compare(pos, other) == CompareFrom(pos, other, 1)

\* Every segment value of the model is a defined integer, so IsValid is
\* decided by the segment count and the authors.
IsValid(pos) ==
    /\ Len(pos) # 0
    /\ \A i \in 1..Len(pos) : pos[i].author # <<>>

\* The first index (0-based count) at which value or author differ.
RECURSIVE CommonPrefixLen(_, _, _)
CommonPrefixLen(l, rt, i) ==
    IF i >= Min(Len(l), Len(rt)) THEN i
    ELSE IF l[i + 1].value # rt[i + 1].value THEN i
    ELSE IF l[i + 1].author # rt[i + 1].author THEN i
    ELSE CommonPrefixLen(l, rt, i + 1)

generatePositionBetween(l, rt, authorID) ==
    LET minLen == Min(Len(l), Len(rt))
        k == CommonPrefixLen(l, rt, 0)
        segments == SubSeq(l, 1, k)
    IN  IF k < minLen
        THEN LET leftVal == l[k + 1].value
                 rightVal == rt[k + 1].value
                 diff == rightVal - leftVal
             IN  IF diff > 1
                 THEN Append(segments,
                             PositionSegment(leftVal + (diff \div 2), authorID))
                 ELSE Append(Append(segments, l[k + 1]),
                             PositionSegment(1, authorID))
        ELSE IF Len(l) = k
             THEN Append(segments, PositionSegment(1, authorID))
             ELSE Append(Append(segments, l[k + 1]),
                         PositionSegment(1, authorID))

\* GeneratePosition whose append branch keeps the left segment's author.
GeneratePositionLeftAuthor(l, rt, authorID) ==
    IF ~IsValid(l) /\ ~IsValid(rt) THEN <<PositionSegment(1, authorID)>>
    ELSE IF ~IsValid(l)
    THEN LET value == rt[1].value - 1
         IN  IF value <= 0
             THEN <<PositionSegment(0, authorID)>> \o rt
             ELSE <<PositionSegment(value, authorID)>>
    ELSE IF ~IsValid(rt)
    THEN <<PositionSegment(l[1].value + 1, l[1].author)>>
    ELSE generatePositionBetween(l, rt, authorID)

GeneratePosition(l, rt, authorID) ==
    IF ~IsValid(l) /\ ~IsValid(rt) THEN <<PositionSegment(1, authorID)>>
    ELSE IF ~IsValid(l)
    THEN LET value == rt[1].value - 1
         IN  IF value <= 0
             THEN <<PositionSegment(0, authorID)>> \o rt
             ELSE <<PositionSegment(value, authorID)>>
    ELSE IF ~IsValid(rt)
    THEN <<PositionSegment(l[1].value + 1, authorID)>>
    ELSE generatePositionBetween(l, rt, authorID)

(* ------------------------------ documents ------------------------------ *)

\* sha256.Sum256(content), and the all-zero array a new Document holds.
Sum256(content) == [zero |-> FALSE, preimage |-> content]
ZeroHash == [zero |-> TRUE, preimage |-> ""]

NoOperation == ""

\* error values; Nil is success
Nil == "nil"
ErrInvalidPosition == "ErrInvalidPosition"
ErrPositionOccupied == "ErrPositionOccupied"
ErrConstructNotFound == "ErrConstructNotFound"
ErrUnsupportedOperation == "ErrUnsupportedOperation"

OpInsert == "insert"
OpDelete == "delete"
OpMove == "move"

\* A Go map as a function on its key set.
EmptyMap == [k \in {} |-> k]
MapPut(m, k, v) == [x \in DOMAIN m \cup {k} |-> IF x = k THEN v ELSE m[x]]
MapDelete(m, k) == [x \in DOMAIN m \ {k} |-> m[x]]

\* Type and Metadata of a construct are functions of the operation alone
\* (inferConstructType, buildConstructMeta) and are left out.
Construct(id, content, pos, createdBy, modifiedBy) ==
    [ID |-> id, Content |-> content, Position |-> pos,
     CreatedBy |-> createdBy, ModifiedBy |-> modifiedBy]

NewDocument ==
    [Constructs |-> EmptyMap, PositionIndex |-> EmptyMap, PositionIdx |-> <<>>,
     ContentHash |-> ZeroHash, Version |-> 0, LastOperation |-> NoOperation]

\* The loop of Render and of updateContentHash over PositionIdx[i..].
RECURSIVE ContentFrom(_, _)
ContentFrom(d, i) ==
    IF i > Len(d.PositionIdx) THEN ""
    ELSE LET posKey == Key(d.PositionIdx[i])
         IN  (IF posKey \in DOMAIN d.Constructs
              THEN d.Constructs[posKey].Content ELSE "")
                 \o ContentFrom(d, i + 1)

Render(d) == ContentFrom(d, 1)

updateContentHash(d) == [d EXCEPT !.ContentHash = Sum256(ContentFrom(d, 1))]

\* The binary search of insertPositionSorted (low, high are 0-based).
RECURSIVE SearchInsertionPoint(_, _, _, _)
SearchInsertionPoint(idx, pos, low, high) ==
    IF low < high
    THEN LET mid == (low + high) \div 2
         IN  IF Compare(idx[mid + 1], pos) < 0
             THEN SearchInsertionPoint(idx, pos, mid + 1, high)
             ELSE SearchInsertionPoint(idx, pos, low, mid)
    ELSE low

insertPositionSorted(d, pos) ==
    LET low == SearchInsertionPoint(d.PositionIdx, pos, 0, Len(d.PositionIdx))
    IN  [d EXCEPT !.PositionIdx =
            SubSeq(d.PositionIdx, 1, low) \o <<pos>>
                \o SubSeq(d.PositionIdx, low + 1, Len(d.PositionIdx))]

\* removePositionFromIndex: the first entry that compares equal is removed.
RECURSIVE RemoveFirstEqual(_, _)
RemoveFirstEqual(idx, pos) ==
    IF idx = <<>> THEN <<>>
    ELSE IF Compare(Head(idx), pos) = 0 THEN Tail(idx)
    ELSE <<Head(idx)>> \o RemoveFirstEqual(Tail(idx), pos)

removePositionFromIndex(d, pos) ==
    [d EXCEPT !.PositionIdx = RemoveFirstEqual(d.PositionIdx, pos)]

\* Every operation on a document yields the document after it and the error.
Result(d, err) == [doc |-> d, err |-> err]

InsertConstruct(d, construct) ==
    IF ~IsValid(construct.Position) THEN Result(d, ErrInvalidPosition)
    ELSE LET posKey == Key(construct.Position)
         IN  IF posKey \in DOMAIN d.Constructs THEN Result(d, ErrPositionOccupied)
             ELSE LET d1 == [d EXCEPT
                                !.Constructs = MapPut(@, posKey, construct),
                                !.PositionIndex = MapPut(@, posKey, construct.Position)]
                      d2 == insertPositionSorted(d1, construct.Position)
                      d3 == [d2 EXCEPT !.Version = @ + 1]
                  IN  Result(updateContentHash(d3), Nil)

DeleteConstruct(d, pos) ==
    LET posKey == Key(pos)
    IN  IF posKey \notin DOMAIN d.Constructs THEN Result(d, ErrConstructNotFound)
        ELSE LET d1 == [d EXCEPT
                           !.Constructs = MapDelete(@, posKey),
                           !.PositionIndex = MapDelete(@, posKey)]
                 d2 == removePositionFromIndex(d1, pos)
                 d3 == [d2 EXCEPT !.Version = @ + 1]
             IN  Result(updateContentHash(d3), Nil)

applyInsert(d, op) ==
    LET posKey == Key(op.Position)
    IN  IF posKey \in DOMAIN d.Constructs THEN Result(d, ErrPositionOccupied)
        ELSE LET construct == Construct(op.ID, op.Content, op.Position, op.ID, op.ID)
                 d1 == [d EXCEPT
                           !.Constructs = MapPut(@, posKey, construct),
                           !.PositionIndex = MapPut(@, posKey, op.Position)]
                 d2 == insertPositionSorted(d1, op.Position)
                 d3 == [d2 EXCEPT !.LastOperation = op.ID, !.Version = @ + 1]
             IN  Result(updateContentHash(d3), Nil)

\* applyDelete that counts a delete at an unoccupied position as a change.
applyDeleteAlwaysBumps(d, op) ==
    LET posKey == Key(op.Position)
    IN  IF posKey \notin DOMAIN d.Constructs
        THEN Result([d EXCEPT !.LastOperation = op.ID, !.Version = @ + 1], Nil)
        ELSE LET d1 == [d EXCEPT
                           !.Constructs = MapDelete(@, posKey),
                           !.PositionIndex = MapDelete(@, posKey)]
                 d2 == removePositionFromIndex(d1, op.Position)
                 d3 == [d2 EXCEPT !.LastOperation = op.ID, !.Version = @ + 1]
             IN  Result(updateContentHash(d3), Nil)

\* applyDelete that reports a delete at an unoccupied position as not found,
\* as DeleteConstruct does.
applyDeleteMissingFails(d, op) ==
    LET posKey == Key(op.Position)
    IN  IF posKey \notin DOMAIN d.Constructs THEN Result(d, ErrConstructNotFound)
        ELSE LET d1 == [d EXCEPT
                           !.Constructs = MapDelete(@, posKey),
                           !.PositionIndex = MapDelete(@, posKey)]
                 d2 == removePositionFromIndex(d1, op.Position)
                 d3 == [d2 EXCEPT !.LastOperation = op.ID, !.Version = @ + 1]
             IN  Result(updateContentHash(d3), Nil)

applyDelete(d, op) ==
    LET posKey == Key(op.Position)
    IN  IF posKey \notin DOMAIN d.Constructs THEN Result(d, Nil)
        ELSE LET d1 == [d EXCEPT
                           !.Constructs = MapDelete(@, posKey),
                           !.PositionIndex = MapDelete(@, posKey)]
                 d2 == removePositionFromIndex(d1, op.Position)
                 d3 == [d2 EXCEPT !.LastOperation = op.ID, !.Version = @ + 1]
             IN  Result(updateContentHash(d3), Nil)

ApplyOperation(d, op) ==
    IF op.Type = OpInsert THEN applyInsert(d, op)
    ELSE IF op.Type = OpDelete THEN applyDelete(d, op)
    ELSE Result(d, ErrUnsupportedOperation)

(* --------------------------- the operation DAG ------------------------- *)

ErrOperationNotFound == "operation not found"
ErrInvalidOperation == "invalid operation"
ErrInvalidAuthor == "invalid author"
ErrInvalidOperationType == "invalid operation type"

\* What a call ends in when it dereferences a nil pointer: a run-time panic
\* (the deferred Unlock runs, nothing has been assigned).
Panic == "panic: nil pointer dereference"

\* The nil *Operation, and the empty AuthorID.
NilOperation == [isNil |-> TRUE]
NoAuthor == <<>>

NewOperationDAG ==
    [operations |-> EmptyMap, children |-> EmptyMap, roots |-> <<>>, heads |-> <<>>]

\* The DAG after a call and the error the call returned.
DagResult(d, err) == [dag |-> d, err |-> err]

\* dag.children[id]: a missing key reads as the empty slice.
ChildrenOf(d, id) == IF id \in DOMAIN d.children THEN d.children[id] ELSE <<>>

\* The sequence without its first element equal to x.
RECURSIVE RemoveFirst(_, _)
RemoveFirst(seq, x) ==
    IF seq = <<>> THEN <<>>
    ELSE IF Head(seq) = x THEN Tail(seq)
    ELSE <<Head(seq)>> \o RemoveFirst(Tail(seq), x)

removeFromHeads(d, id) == [d EXCEPT !.heads = RemoveFirst(@, id)]

\* The loop of AddOperation over op.Parents, from the i-th parent on.
RECURSIVE LinkParents(_, _, _)
LinkParents(d, op, i) ==
    IF i > Len(op.Parents) THEN d
    ELSE LET parentID == op.Parents[i]
             d1 == [d EXCEPT !.children =
                        MapPut(@, parentID, Append(ChildrenOf(d, parentID), op.ID))]
         IN  LinkParents(removeFromHeads(d1, parentID), op, i + 1)

\* AddOperation that appends to heads before it looks the identifier up.
AddOperationHeadsFirst(d, op) ==
    IF op = NilOperation THEN DagResult(d, Panic)
    ELSE IF op.ID \in DOMAIN d.operations
         THEN DagResult([d EXCEPT !.heads = Append(@, op.ID)], Nil)
    ELSE LET d1 == [d EXCEPT !.operations = MapPut(@, op.ID, op)]
             d2 == IF Len(op.Parents) = 0
                   THEN [d1 EXCEPT !.roots = Append(@, op.ID)]
                   ELSE LinkParents(d1, op, 1)
         IN  DagResult([d2 EXCEPT !.heads = Append(@, op.ID)], Nil)

AddOperation(d, op) ==
    IF op = NilOperation THEN DagResult(d, Panic)
    ELSE IF op.ID \in DOMAIN d.operations THEN DagResult(d, Nil)
    ELSE LET d1 == [d EXCEPT !.operations = MapPut(@, op.ID, op)]
             d2 == IF Len(op.Parents) = 0
                   THEN [d1 EXCEPT !.roots = Append(@, op.ID)]
                   ELSE LinkParents(d1, op, 1)
         IN  DagResult([d2 EXCEPT !.heads = Append(@, op.ID)], Nil)

\* The closure traverse of GetCausalHistory: st holds the visited set and the
\* history built so far (operation identifiers, in the order appended).
RECURSIVE traverse(_, _, _)
RECURSIVE traverseParents(_, _, _, _)
\* traverse that appends an operation before it follows its parents.
traversePreOrder(d, st, opID) ==
    IF opID \in st.visited THEN st
    ELSE LET st1 == [st EXCEPT !.visited = @ \cup {opID}]
         IN  IF opID \notin DOMAIN d.operations THEN st1
             ELSE traverseParents(d, [st1 EXCEPT !.history = Append(@, opID)],
                                  d.operations[opID].Parents, 1)

traverse(d, st, opID) ==
    IF opID \in st.visited THEN st
    ELSE LET st1 == [st EXCEPT !.visited = @ \cup {opID}]
         IN  IF opID \notin DOMAIN d.operations THEN st1
             ELSE LET st2 == traverseParents(d, st1, d.operations[opID].Parents, 1)
                  IN  [st2 EXCEPT !.history = Append(@, opID)]

traverseParents(d, st, parents, i) ==
    IF i > Len(parents) THEN st
    ELSE traverseParents(d, traverse(d, st, parents[i]), parents, i + 1)

GetCausalHistory(d, id) ==
    [history |-> traverse(d, [visited |-> {}, history |-> <<>>], id).history,
     err |-> Nil]

ValidateOperation(op) ==
    IF op = NilOperation THEN ErrInvalidOperation
    ELSE IF op.Author = NoAuthor THEN ErrInvalidAuthor
    ELSE IF op.Type \notin {OpInsert, OpDelete, OpMove} THEN ErrInvalidOperationType
    ELSE Nil

(* --------------------------- the address resolver ---------------------- *)

ErrAddressNotFound == "address not found"

MovementRefactor == "refactor"
MovementMove == "move"
MovementEdit == "edit"
MovementDelete == "delete"

PositionRange(start, end) == [Start |-> start, End |-> end]

\* PositionRange{}: both ends are the position without segments.
ZeroRange == PositionRange(<<>>, <<>>)

Contains(pr, pos) == Compare(pos, pr.Start) >= 0 /\ Compare(pos, pr.End) <= 0

IsEmpty(pr) == Compare(pr.Start, pr.End) > 0

NewStableAddress(repo, creationOp, posRange) ==
    [Scheme |-> "contextdb", Repository |-> repo, OperationID |-> creationOp,
     PositionRange |-> posRange]

\* StableAddress.Key: the creating operation's identifier and the keys of the
\* two ends of the address's own range (the code keeps the leading hex digits
\* of each of the three digests); the repository is not part of it.
AddressKey(addr) ==
    <<addr.OperationID, Key(addr.PositionRange.Start), Key(addr.PositionRange.End)>>

\* A MovementRecord; InvalidateAddress leaves CausedBy at its zero value.
MovementRecord(from, to, causedBy, reason) ==
    [FromRange |-> from, ToRange |-> to, CausedBy |-> causedBy, Reason |-> reason]

\* The nil *ResolvedAddress and the zero StableAddress.
NoResolved == [isNil |-> TRUE]
NoAddress == NewStableAddress("", NoOperation, ZeroRange)

NewAddressResolver ==
    [operationIndex |-> EmptyMap, constructIndex |-> EmptyMap,
     addressIndex |-> EmptyMap, forwardingTable |-> EmptyMap]

\* The resolver after a call, what the call returned, and its error.
ResResult(res, value, err) == [resolver |-> res, value |-> value, err |-> err]

\* The constructs of the construct index whose position lies in the range
\* (the code collects them in map iteration order; kept here as a set).
getConstructsInRange(res, posRange) ==
    {res.constructIndex[k] : k \in
        {key \in DOMAIN res.constructIndex :
            Contains(posRange, res.constructIndex[key].Position)}}

\* CreateAddress that takes the address's validity from the constructs found.
CreateAddressValidIfConstructs(res, repo, creationOpID, posRange) ==
    IF creationOpID \notin DOMAIN res.operationIndex
    THEN ResResult(res, NoAddress, ErrOperationNotFound)
    ELSE LET address == NewStableAddress(repo, creationOpID, posRange)
             resolved == [Address |-> address,
                          CurrentRange |-> posRange,
                          Constructs |-> getConstructsInRange(res, posRange),
                          CreationOp |-> res.operationIndex[creationOpID],
                          IsValid |-> getConstructsInRange(res, posRange) # {},
                          MovementHistory |-> <<>>]
         IN  ResResult([res EXCEPT !.addressIndex =
                            MapPut(@, AddressKey(address), resolved)],
                       address, Nil)

CreateAddress(res, repo, creationOpID, posRange) ==
    IF creationOpID \notin DOMAIN res.operationIndex
    THEN ResResult(res, NoAddress, ErrOperationNotFound)
    ELSE LET address == NewStableAddress(repo, creationOpID, posRange)
             resolved == [Address |-> address,
                          CurrentRange |-> posRange,
                          Constructs |-> getConstructsInRange(res, posRange),
                          CreationOp |-> res.operationIndex[creationOpID],
                          IsValid |-> TRUE,
                          MovementHistory |-> <<>>]
         IN  ResResult([res EXCEPT !.addressIndex =
                            MapPut(@, AddressKey(address), resolved)],
                       address, Nil)

ResolveAddress(res, addr) ==
    LET addressKey == IF AddressKey(addr) \in DOMAIN res.forwardingTable
                      THEN res.forwardingTable[AddressKey(addr)]
                      ELSE AddressKey(addr)
    IN  IF addressKey \notin DOMAIN res.addressIndex
        THEN ResResult(res, NoResolved, ErrAddressNotFound)
        ELSE ResResult(res, res.addressIndex[addressKey], Nil)

\* UpdateAddressLocation that keeps an address valid whenever the new range
\* is not empty.
UpdateAddressLocationValidIfNonEmpty(res, addr, newRange, causedBy, reason) ==
    LET addressKey == AddressKey(addr)
    IN  IF addressKey \notin DOMAIN res.addressIndex
        THEN ResResult(res, NoResolved, ErrAddressNotFound)
        ELSE LET resolved == res.addressIndex[addressKey]
                 movement == MovementRecord(resolved.CurrentRange, newRange,
                                            causedBy, reason)
                 updated == [resolved EXCEPT
                                !.MovementHistory = Append(@, movement),
                                !.CurrentRange = newRange,
                                !.Constructs = getConstructsInRange(res, newRange),
                                !.IsValid = ~IsEmpty(newRange)]
             IN  ResResult([res EXCEPT !.addressIndex[addressKey] = updated],
                           NoResolved, Nil)

UpdateAddressLocation(res, addr, newRange, causedBy, reason) ==
    LET addressKey == AddressKey(addr)
    IN  IF addressKey \notin DOMAIN res.addressIndex
        THEN ResResult(res, NoResolved, ErrAddressNotFound)
        ELSE LET resolved == res.addressIndex[addressKey]
                 movement == MovementRecord(resolved.CurrentRange, newRange,
                                            causedBy, reason)
                 updated == [resolved EXCEPT
                                !.MovementHistory = Append(@, movement),
                                !.CurrentRange = newRange,
                                !.Constructs = getConstructsInRange(res, newRange),
                                !.IsValid = /\ ~IsEmpty(newRange)
                                            /\ getConstructsInRange(res, newRange) # {}]
             IN  ResResult([res EXCEPT !.addressIndex[addressKey] = updated],
                           NoResolved, Nil)

\* GetAddressHistory: value is the copy of the movement log it returns.
GetAddressHistory(res, addr) ==
    IF AddressKey(addr) \notin DOMAIN res.addressIndex
    THEN ResResult(res, <<>>, ErrAddressNotFound)
    ELSE ResResult(res, res.addressIndex[AddressKey(addr)].MovementHistory, Nil)

\* InvalidateAddress that registers an address it does not know.
InvalidateAddressCreates(res, addr, reason) ==
    LET addressKey == AddressKey(addr)
        resolved == IF addressKey \in DOMAIN res.addressIndex
                    THEN res.addressIndex[addressKey]
                    ELSE [Address |-> addr, CurrentRange |-> addr.PositionRange,
                          Constructs |-> {}, CreationOp |-> NilOperation,
                          IsValid |-> FALSE, MovementHistory |-> <<>>]
        movement == MovementRecord(resolved.CurrentRange, ZeroRange,
                                   NoOperation, reason)
        updated == [resolved EXCEPT !.IsValid = FALSE,
                                    !.MovementHistory = Append(@, movement)]
    IN  ResResult([res EXCEPT !.addressIndex = MapPut(@, addressKey, updated)],
                  NoResolved,
                  IF addressKey \in DOMAIN res.addressIndex THEN Nil
                  ELSE ErrAddressNotFound)

InvalidateAddress(res, addr, reason) ==
    LET addressKey == AddressKey(addr)
    IN  IF addressKey \notin DOMAIN res.addressIndex
        THEN ResResult(res, NoResolved, ErrAddressNotFound)
        ELSE LET resolved == res.addressIndex[addressKey]
                 movement == MovementRecord(resolved.CurrentRange, ZeroRange,
                                            NoOperation, reason)
                 updated == [resolved EXCEPT
                                !.IsValid = FALSE,
                                !.MovementHistory = Append(@, movement)]
             IN  ResResult([res EXCEPT !.addressIndex[addressKey] = updated],
                           NoResolved, Nil)

IndexOperation(res, op) ==
    ResResult([res EXCEPT !.operationIndex = MapPut(@, op.ID, op)], NoResolved, Nil)

\* The loop of IndexDocument over the document's constructs.
IndexDocument(res, d) ==
    ResResult([res EXCEPT !.constructIndex =
                   [k \in DOMAIN @ \cup DOMAIN d.Constructs |->
                       IF k \in DOMAIN d.Constructs THEN d.Constructs[k] ELSE @[k]]],
              NoResolved, Nil)

operationAffectsAddress(op, resolved) == Contains(resolved.CurrentRange, op.Position)

updateAddressForOperation(res, op, resolved) ==
    LET deleted == op.Type = OpDelete /\ Contains(resolved.CurrentRange, op.Position)
        reason == IF op.Type = OpDelete THEN MovementDelete
                  ELSE IF op.Type = OpMove THEN MovementMove
                  ELSE MovementEdit
        newRange == IF deleted THEN ZeroRange ELSE resolved.CurrentRange
        movement == MovementRecord(resolved.CurrentRange, newRange, op.ID, reason)
    IN  [resolved EXCEPT
            !.IsValid = IF deleted THEN FALSE ELSE @,
            !.MovementHistory = Append(@, movement),
            !.CurrentRange = newRange,
            !.Constructs = getConstructsInRange(res, newRange)]

\* ProcessOperation that recomputes the constructs of every address.
ProcessOperationRefreshAll(res, op) ==
    LET res1 == [res EXCEPT !.operationIndex = MapPut(@, op.ID, op)]
        index == res1.addressIndex
    IN  ResResult([res1 EXCEPT !.addressIndex =
                       [k \in DOMAIN index |->
                           IF operationAffectsAddress(op, index[k])
                           THEN updateAddressForOperation(res1, op, index[k])
                           ELSE [index[k] EXCEPT !.Constructs =
                                    getConstructsInRange(res1, index[k].CurrentRange)]]],
                  NoResolved, Nil)

ProcessOperation(res, op) ==
    LET res1 == [res EXCEPT !.operationIndex = MapPut(@, op.ID, op)]
    IN  ResResult([res1 EXCEPT !.addressIndex =
                       [k \in DOMAIN @ |->
                           IF operationAffectsAddress(op, @[k])
                           THEN updateAddressForOperation(res1, op, @[k])
                           ELSE @[k]]],
                  NoResolved, Nil)

(* ------------------------- the collaboration engine -------------------- *)

\* The error of a storage call that fails (the driver's error).
ErrStorage == "storage failure"
ErrMissingDocumentID ==
    "operation missing document_id in metadata and cannot infer from context"

\* The storage behind the Store interface: operations by identifier and
\* documents by path, as the last successful Store call left them.
NewStore == [operations |-> EmptyMap, documents |-> EmptyMap]

(* ------------------------------ the SQLite store ----------------------- *)

ErrDocumentNotFound == "document not found"

\* The rows of the documents and the constructs table for one path; NoRow
\* when the documents table has no row for it.
NoRow == [version |-> -1, content_hash |-> ZeroHash, last_operation |-> NoOperation]
NewTables == [documents |-> NoRow, constructs |-> {}]

\* big.Int.MarshalJSON: the decimal digits, with a minus sign when negative.
RECURSIVE Digits(_)
Digits(n) == IF n < 10 THEN <<48 + n>> ELSE Append(Digits(n \div 10), 48 + (n % 10))

Decimal(v) == IF v < 0 THEN <<45>> \o Digits(-v) ELSE Digits(v)

\* The bytes of {"value": and of ,"author":" in the JSON of a PositionSegment.
ValueName == <<123, 34, 118, 97, 108, 117, 101, 34, 58>>
AuthorName == <<44, 34, 97, 117, 116, 104, 111, 114, 34, 58, 34>>

\* json.Marshal(construct.Position.Segments) for a non-empty slice:
\* [{"value":2,"author":"a"},...] (author names need no escaping).
RECURSIVE MarshalFrom(_, _)
MarshalFrom(segments, i) ==
    IF i > Len(segments) THEN <<93>>
    ELSE (IF i > 1 THEN <<44>> ELSE <<>>)
             \o ValueName \o Decimal(segments[i].value)
             \o AuthorName \o segments[i].author \o <<34, 125>>
             \o MarshalFrom(segments, i + 1)

MarshalSegments(segments) == <<91>> \o MarshalFrom(segments, 1)

\* json.Unmarshal of that text: the digits of a value, the bytes of an author
\* up to the closing quote, and the segments one after the other.
RECURSIVE ParseDigits(_, _, _)
ParseDigits(text, i, acc) ==
    IF i <= Len(text) /\ text[i] \in 48..57
    THEN ParseDigits(text, i + 1, acc * 10 + (text[i] - 48))
    ELSE [value |-> acc, next |-> i]

RECURSIVE ParseString(_, _, _)
ParseString(text, i, acc) ==
    IF text[i] = 34 THEN [value |-> acc, next |-> i + 1]
    ELSE ParseString(text, i + 1, Append(acc, text[i]))

RECURSIVE ParseSegments(_, _)
ParseSegments(text, i) ==
    IF text[i] = 93 THEN <<>>
    ELSE LET start == IF text[i] = 44 THEN i + 1 ELSE i
             at == start + Len(ValueName)
             negative == text[at] = 45
             number == ParseDigits(text, IF negative THEN at + 1 ELSE at, 0)
             author == ParseString(text, number.next + Len(AuthorName), <<>>)
         IN  <<PositionSegment(IF negative THEN 0 - number.value ELSE number.value,
                               author.value)>>
                 \o ParseSegments(text, author.next + 1)

UnmarshalSegments(text) == ParseSegments(text, 2)

\* A row of the constructs table (type and metadata are left out as in
\* Construct).
ConstructRow(construct) ==
    [id |-> construct.ID,
     position_segments |-> MarshalSegments(construct.Position),
     content |-> construct.Content,
     created_by |-> construct.CreatedBy,
     modified_by |-> construct.ModifiedBy]

\* StoreDocument: one transaction replaces the documents row and the
\* construct rows of the path.  The id column is the primary key of the
\* constructs table, so two constructs with one ID make an INSERT fail and
\* the transaction is rolled back.  The content_hash column holds the hex
\* text of the hash, which stands for the hash.
StoreDocument(t, d) ==
    LET constructs == {d.Constructs[k] : k \in DOMAIN d.Constructs}
    IN  IF \E c1, c2 \in constructs : c1 # c2 /\ c1.ID = c2.ID
        THEN [tables |-> t, err |-> ErrStorage]
        ELSE [tables |->
                 [documents |-> [version |-> d.Version,
                                 content_hash |-> d.ContentHash,
                                 last_operation |-> d.LastOperation],
                  constructs |-> {ConstructRow(c) : c \in constructs}],
              err |-> Nil]

\* ORDER BY position_segments: the rows by the bytes of the JSON text.
RECURSIVE OrderByPositionSegments(_)
OrderByPositionSegments(rows) ==
    IF rows = {} THEN <<>>
    ELSE LET first == CHOOSE row \in rows :
                 \A other \in rows :
                     StrCmp(row.position_segments, other.position_segments) <= 0
         IN  <<first>> \o OrderByPositionSegments(rows \ {first})

\* The loop of GetDocument over the rows: each construct goes into the maps
\* under the key of its position, and its position is appended to
\* PositionIdx.
RECURSIVE ScanRows(_, _, _)
ScanRows(d, rows, i) ==
    IF i > Len(rows) THEN d
    ELSE LET position == UnmarshalSegments(rows[i].position_segments)
             construct == Construct(rows[i].id, rows[i].content, position,
                                    rows[i].created_by, rows[i].modified_by)
             posKey == Key(position)
         IN  ScanRows([d EXCEPT
                          !.Constructs = MapPut(@, posKey, construct),
                          !.PositionIndex = MapPut(@, posKey, position),
                          !.PositionIdx = Append(@, position)],
                      rows, i + 1)

\* GetDocument: version and last operation come from the documents row; the
\* content_hash column is scanned into a local and doc.ContentHash is left
\* at its zero value.
GetDocument(t) ==
    IF t.documents = NoRow THEN [doc |-> NewDocument, err |-> ErrDocumentNotFound]
    ELSE [doc |-> ScanRows([NewDocument EXCEPT
                               !.Version = t.documents.version,
                               !.LastOperation = t.documents.last_operation],
                           OrderByPositionSegments(t.constructs), 1),
          err |-> Nil]

NewCollaborationEngine ==
    [operationDAG |-> NewOperationDAG,
     addressResolver |-> NewAddressResolver,
     documents |-> EmptyMap,
     store |-> NewStore,
     broadcasts |-> <<>>]

\* The engine after a call, the error returned, and the steps of
\* ProcessOperation that were completed, in order.
EngResult(e, err, steps) == [engine |-> e, err |-> err, steps |-> steps]

\* applyDelete writes ModifiedBy through the pointer of the construct it
\* removed; the resolver's construct index and the construct lists of its
\* addresses hold the same pointer.
TouchConstruct(res, old, new) ==
    [res EXCEPT
        !.constructIndex = [k \in DOMAIN @ |-> IF @[k] = old THEN new ELSE @[k]],
        !.addressIndex = [k \in DOMAIN @ |->
            [@[k] EXCEPT !.Constructs = {IF c = old THEN new ELSE c : c \in @}]]]

\* getOrLoadDocument: the document in memory, else the stored one, else a
\* new one (ErrDocumentNotFound); loadOK is whether GetDocument works.
getOrLoadDocument(e, documentID, loadOK) ==
    IF documentID \in DOMAIN e.documents
    THEN [engine |-> e, doc |-> e.documents[documentID], err |-> Nil]
    ELSE IF ~loadOK THEN [engine |-> e, doc |-> NewDocument, err |-> ErrStorage]
    ELSE LET d == IF documentID \in DOMAIN e.store.documents
                  THEN e.store.documents[documentID] ELSE NewDocument
         IN  [engine |-> [e EXCEPT !.documents = MapPut(@, documentID, d)],
              doc |-> d, err |-> Nil]

\* BroadcastOperation, kept as the log of what was handed to the clients.
BroadcastOperation(e, op, documentID, excludeClient) ==
    [e EXCEPT !.broadcasts =
        Append(@, [op |-> op.ID, documentID |-> documentID,
                   excludeClient |-> excludeClient])]

\* The tail of ProcessOperation with the broadcast made as soon as the
\* operation is applied, before the document is stored.
ApplyToDocumentBroadcastFirst(e, op, documentID, fromClient, fail, steps) ==
    LET loaded == getOrLoadDocument(e, documentID, fail # "load-document")
    IN  IF loaded.err # Nil
        THEN EngResult(loaded.engine, "failed to load document: " \o loaded.err, steps)
        ELSE
    LET outcome == ApplyOperation(loaded.doc, op)
    IN  IF outcome.err # Nil
        THEN EngResult(loaded.engine,
                 "failed to apply operation to document: " \o outcome.err, steps)
        ELSE
    LET e1 == [loaded.engine EXCEPT !.documents = MapPut(@, documentID, outcome.doc)]
        e2 == BroadcastOperation(e1, op, documentID, fromClient)
    IN  IF fail = "store-document"
        THEN EngResult(e2, "failed to store updated document: " \o ErrStorage,
                       steps \o <<"apply", "broadcast">>)
        ELSE
    LET e3 == [e2 EXCEPT !.store.documents = MapPut(@, documentID, outcome.doc)]
        e4 == [e3 EXCEPT !.addressResolver = IndexDocument(@, outcome.doc).resolver]
    IN  EngResult(e4, Nil,
                  steps \o <<"apply", "broadcast", "store-document", "index-document">>)

\* The tail of engine ProcessOperation, from the document lookup on.
ApplyToDocument(e, op, documentID, fromClient, fail, steps) ==
    LET loaded == getOrLoadDocument(e, documentID, fail # "load-document")
    IN  IF loaded.err # Nil
        THEN EngResult(loaded.engine, "failed to load document: " \o loaded.err, steps)
        ELSE
    LET outcome == ApplyOperation(loaded.doc, op)
    IN  IF outcome.err # Nil
        THEN EngResult(loaded.engine,
                 "failed to apply operation to document: " \o outcome.err, steps)
        ELSE
    LET key == Key(op.Position)
        removed == op.Type = OpDelete /\ key \in DOMAIN loaded.doc.Constructs
        e1 == [loaded.engine EXCEPT !.documents = MapPut(@, documentID, outcome.doc)]
        e2 == IF removed
              THEN [e1 EXCEPT !.addressResolver =
                       TouchConstruct(@, loaded.doc.Constructs[key],
                           [loaded.doc.Constructs[key] EXCEPT !.ModifiedBy = op.ID])]
              ELSE e1
    IN  IF fail = "store-document"
        THEN EngResult(e2, "failed to store updated document: " \o ErrStorage,
                       steps \o <<"apply">>)
        ELSE
    LET e3 == [e2 EXCEPT !.store.documents = MapPut(@, documentID, outcome.doc)]
        e4 == [e3 EXCEPT !.addressResolver = IndexDocument(@, outcome.doc).resolver]
    IN  EngResult(BroadcastOperation(e4, op, documentID, fromClient), Nil,
                  steps \o <<"apply", "store-document", "index-document", "broadcast">>)

\* Engine ProcessOperation that hands the operation to the resolver before
\* it stores it.
EngineProcessOperationResolverFirst(e, op, fromClient, fail) ==
    IF ValidateOperation(op) # Nil
    THEN EngResult(e, "invalid operation: " \o ValidateOperation(op), <<>>)
    ELSE
    LET e1 == [e EXCEPT !.operationDAG = AddOperation(@, op).dag]
        e2 == [e1 EXCEPT !.addressResolver = ProcessOperation(@, op).resolver]
    IN  IF fail = "store-operation"
        THEN EngResult(e2, "failed to store operation: " \o ErrStorage,
                       <<"dag", "resolver">>)
        ELSE
    LET e3 == [e2 EXCEPT !.store.operations = MapPut(@, op.ID, op)]
        steps == <<"dag", "resolver", "store-operation">>
        documentID == IF op.DocumentID # "" THEN op.DocumentID
                      ELSE IF op.SessionID # "" THEN "default"
                      ELSE ""
    IN  IF documentID = "" THEN EngResult(e3, ErrMissingDocumentID, steps)
        ELSE ApplyToDocument(e3, op, documentID, fromClient, fail, steps)

\* Engine ProcessOperation; fail names the storage call that fails in this
\* run, if any.
EngineProcessOperation(e, op, fromClient, fail) ==
    IF ValidateOperation(op) # Nil
    THEN EngResult(e, "invalid operation: " \o ValidateOperation(op), <<>>)
    ELSE
    LET e1 == [e EXCEPT !.operationDAG = AddOperation(@, op).dag]
    IN  IF fail = "store-operation"
        THEN EngResult(e1, "failed to store operation: " \o ErrStorage, <<"dag">>)
        ELSE
    LET e2 == [e1 EXCEPT !.store.operations = MapPut(@, op.ID, op)]
        e3 == [e2 EXCEPT !.addressResolver = ProcessOperation(@, op).resolver]
        steps == <<"dag", "store-operation", "resolver">>
        documentID == IF op.DocumentID # "" THEN op.DocumentID
                      ELSE IF op.SessionID # "" THEN "default"
                      ELSE ""
    IN  IF documentID = "" THEN EngResult(e3, ErrMissingDocumentID, steps)
        ELSE ApplyToDocument(e3, op, documentID, fromClient, fail, steps)

CreateStableAddress(e, repo, creationOpID, posRange) ==
    LET made == CreateAddress(e.addressResolver, repo, creationOpID, posRange)
    IN  [engine |-> [e EXCEPT !.addressResolver = made.resolver],
         value |-> made.value, err |-> made.err]

(* ------------------------ the conversation manager --------------------- *)

\* A ConversationManager: the threads by identifier and, for each address
\* key, the identifiers of the threads anchored there (the author index is
\* left out).
NewConversationManager == [conversations |-> EmptyMap, addressIndex |-> EmptyMap]

\* A ConversationThread: its identifier and its anchor.
ConversationThread(id, anchorAddr) == [ID |-> id, AnchorAddress |-> anchorAddr]

indexConversation(cm, thread) ==
    LET addressKey == AddressKey(thread.AnchorAddress)
        indexed == IF addressKey \in DOMAIN cm.addressIndex
                   THEN cm.addressIndex[addressKey] ELSE <<>>
    IN  [cm EXCEPT !.addressIndex = MapPut(@, addressKey, Append(indexed, thread.ID))]

\* CreateConversation; threadID is what generateThreadID returned.
CreateConversation(cm, anchorAddr, threadID) ==
    LET thread == ConversationThread(threadID, anchorAddr)
    IN  indexConversation([cm EXCEPT !.conversations = MapPut(@, threadID, thread)],
                          thread)

\* The loop of GetConversationsByAddress over threadIDs[i..].
RECURSIVE ThreadsFrom(_, _, _)
ThreadsFrom(cm, threadIDs, i) ==
    IF i > Len(threadIDs) THEN <<>>
    ELSE (IF threadIDs[i] \in DOMAIN cm.conversations
          THEN <<cm.conversations[threadIDs[i]]>> ELSE <<>>)
             \o ThreadsFrom(cm, threadIDs, i + 1)

GetConversationsByAddress(cm, addr) ==
    LET addressKey == AddressKey(addr)
    IN  IF addressKey \notin DOMAIN cm.addressIndex THEN <<>>
        ELSE ThreadsFrom(cm, cm.addressIndex[addressKey], 1)

\* ConversationManager.UpdateAddressLocation.
MoveConversations(cm, oldAddr, newAddr) ==
    LET oldKey == AddressKey(oldAddr)
        newKey == AddressKey(newAddr)
    IN  IF oldKey \notin DOMAIN cm.addressIndex THEN cm
        ELSE LET threadIDs == cm.addressIndex[oldKey]
                 moved == {threadIDs[i] : i \in 1..Len(threadIDs)}
             IN  [cm EXCEPT
                    !.conversations =
                        [id \in DOMAIN @ |->
                            IF id \in moved
                            THEN [@[id] EXCEPT !.AnchorAddress = newAddr]
                            ELSE @[id]],
                    !.addressIndex = MapDelete(MapPut(@, newKey, threadIDs), oldKey)]

(* --------------------------- input universes --------------------------- *)

\* The absent bound: a position with no segments (not valid).
Absent == <<>>

SegmentsOver(values, authors) == [value : values, author : authors]

\* Every position of 1..n segments over the given segments.
PositionsOver(segs, n) == UNION {[1..k -> segs] : k \in 1..n}

\* Bounds handed to GeneratePosition: valid positions by authors "a" and "b".
GenPositions == PositionsOver(SegmentsOver(0..MaxValue, {AuthorA, AuthorB}), MaxSegs)

\* The authors that call GeneratePosition: one that also wrote segments of the
\* bounds, and one that did not.
GenAuthors == {AuthorA, AuthorAB}

\* Positions handed to Compare and Key.
CmpPositions == PositionsOver(SegmentsOver(0..MaxCmpValue, Authors), MaxSegs)

(* ------------------- GeneratePosition as a state machine --------------- *)

\* What is recorded of a call: which method, on what, the error returned and
\* the ContentHash the document had when it was called.
Call(method, type, pos, err, hashBefore) ==
    [method |-> method, type |-> type, pos |-> pos, err |-> err,
     hashBefore |-> hashBefore]
NoCall == Call("NewDocument", "", Absent, Nil, ZeroHash)

Replicas == {1, 2}

IdleGen == left = Absent /\ right = Absent /\ generated = {}
IdleCmp == p = Absent /\ q = Absent /\ r = Absent /\ compared = {}
IdleDoc == doc = NewDocument /\ call = NoCall
IdleConv ==
    /\ opSet = {}
    /\ replicas = [rep \in Replicas |-> NewDocument]
    /\ applied = [rep \in Replicas |-> {}]

\* The last call made on the DAG: its method, its argument (the operation of
\* AddOperation, the identifier of GetCausalHistory), the error and, for
\* GetCausalHistory, the sequence returned.
DagCall(method, op, id, err, history) ==
    [method |-> method, op |-> op, id |-> id, err |-> err, history |-> history]
NoDagCall == DagCall("NewOperationDAG", NilOperation, "", Nil, <<>>)
IdleDag == dag = NewOperationDAG /\ dagCall = NoDagCall

\* The last call made on the resolver: its method, its arguments (operation,
\* address, and for a move the new range, the causing operation and the
\* reason), what it returned (an address, a resolved record or a movement
\* log) and its error.
ResCallWith(method, op, addr, newRange, causedBy, reason, value, err) ==
    [method |-> method, op |-> op, addr |-> addr, newRange |-> newRange,
     causedBy |-> causedBy, reason |-> reason, value |-> value, err |-> err]
ResCall(method, op, addr, value, err) ==
    ResCallWith(method, op, addr, ZeroRange, NoOperation, "", value, err)
NoResCall == ResCall("NewAddressResolver", NilOperation, NoAddress, NoResolved, Nil)
IdleRes == resolver = NewAddressResolver /\ resCall = NoResCall

\* The last call made on the engine: its method, its operation, the error
\* and the steps of ProcessOperation that were completed.
EngCall(method, op, err, steps) ==
    [method |-> method, op |-> op, err |-> err, steps |-> steps]
NoEngCall == EngCall("NewCollaborationEngine", NilOperation, Nil, <<>>)
IdleEng == engine = NewCollaborationEngine /\ engCall = NoEngCall

\* The record a caller holds after ResolveAddress: the key it was resolved
\* under, the fields of the returned struct, and whether its MovementHistory
\* and Constructs slices still have the backing array of the resolver's own
\* record (ResolveAddress copies the slice headers, not the arrays).
Snapshot(key, value, sharesHistory, sharesConstructs) ==
    [taken |-> TRUE, key |-> key, value |-> value,
     sharesHistory |-> sharesHistory, sharesConstructs |-> sharesConstructs]
NoSnapshot ==
    [taken |-> FALSE, key |-> <<>>, value |-> NoResolved,
     sharesHistory |-> FALSE, sharesConstructs |-> FALSE]
IdleSnap == snapshot = NoSnapshot

\* The last call made on the engine's clients: its method, the client or
\* the excluded sender, the document, the message and the error (or panic).
BcCall(method, client, documentID, op, err) ==
    [method |-> method, client |-> client, documentID |-> documentID,
     op |-> op, err |-> err]
NoBcCall == BcCall("NewCollaborationEngine", "", "", NoOperation, Nil)
IdleBc == clients = EmptyMap /\ bcCall = NoBcCall

\* The mutexes: of the engine, the presence tracker, the operation DAG, the
\* address resolver, a document, a client connection, the context analyzer
\* and the conversation manager.
Mutexes == {"ce", "pt", "dag", "res", "doc", "client", "ca", "cm"}
Threads == 1..NumThreads

\* A sync.RWMutex: the goroutine holding it for writing (0: none), how many
\* times each goroutine holds it for reading, and the goroutines that have
\* called Lock and wait for the readers to leave.
NewRWMutex == [writer |-> 0, readers |-> [t \in Threads |-> 0], pending |-> {}]

\* A goroutine: the method it runs and the index of its next lock call.
IdleThread == [method |-> "idle", pc |-> 0]
IdleLock ==
    /\ locks = [m \in Mutexes |-> NewRWMutex]
    /\ threads = [t \in Threads |-> IdleThread]

\* What concurrent ProcessOperation calls share: the Document objects (by
\* the number of the call that made them, 0 for one made before), the
\* engine's map from document id to object, and the stored documents.
NewShared == [objects |-> EmptyMap, documents |-> EmptyMap, stored |-> EmptyMap]

\* A ProcessOperation call: where it is, the Document object it got from
\* getOrLoadDocument (-1: none yet) and the error it returned.
Calls == 1..NumCalls
NewProc == [pc |-> "lookup", doc |-> -1, err |-> Nil]
IdleConc == shared = NewShared /\ procs = [c \in Calls |-> NewProc]

\* What concurrent ProcessOperation calls on one loaded document touch: the
\* Document object, the holder of its mutex (0: nobody), the connection that
\* holds the database's write lock (0: none), the committed rows of the
\* document, the rows of the open transaction, and the resolver's
\* constructIndex.
NoRows == [Version |-> -1, ContentHash |-> "", LastOperation |-> NoOperation,
           Constructs |-> EmptyMap]
NewLive ==
    [doc |-> NewDocument, docMutex |-> 0, dbWriter |-> 0, stored |-> NoRows,
     tx |-> NoRows, constructIndex |-> EmptyMap]

\* A ProcessOperation call on that document: where it is, the document as
\* its ApplyOperation will leave it, the arguments it evaluated for the
\* documents row, whether it read a field of the document while another
\* call was between the first and the last write of ApplyOperation, and the
\* error it returned.
NewWorker == [pc |-> "apply", after |-> NewDocument, args |-> NoRows,
              unguarded |-> FALSE, err |-> Nil]
IdleRace == live = NewLive /\ workers = [c \in Calls |-> NewWorker]

\* The document a caller holds in memory, the tables, and the last call on
\* the store: what it returned, and the document last stored with success.
NotRetrieved == [call |-> "NewSQLiteStore", doc |-> NewDocument, err |-> Nil,
                 of |-> NewDocument]
IdleStore == memory = NewDocument /\ tables = NewTables /\ retrieved = NotRetrieved

\* What is recorded of a call on the ConversationManager: the method, its
\* address arguments and the threads it returned.
CmCall(method, oldAddr, newAddr, found) ==
    [method |-> method, oldAddr |-> oldAddr, newAddr |-> newAddr, found |-> found]
NoCmCall == CmCall("NewConversationManager", NoAddress, NoAddress, <<>>)
IdleCm == manager = NewConversationManager /\ cmCall = NoCmCall

\* The engine's client map and the presence tracker's map, by their key
\* sets, and the goroutine that holds the engine's mutex (0: none).
NewRegistry == [clients |-> {}, presence |-> {}, mutex |-> 0]

\* A goroutine's AddClient or RemoveClient call: the method, the client id,
\* where it is and what it returned.
NoCaller == [method |-> "", client |-> "", pc |-> "idle", err |-> Nil]
IdleReg == registry = NewRegistry /\ goroutines = [g \in Threads |-> NoCaller]

InitGenerate ==
    /\ left \in GenPositions \cup {Absent}
    /\ right \in GenPositions \cup {Absent}
    /\ generated = {}
    /\ IdleCmp /\ IdleDoc /\ IdleConv /\ IdleDag /\ IdleRes /\ IdleEng /\ IdleSnap /\ IdleBc /\ IdleLock /\ IdleConc /\ IdleRace /\ IdleStore /\ IdleCm /\ IdleReg

\* One author calls GeneratePosition(left, right, authorID).
Generate(authorID) ==
    /\ generated' = generated \cup
           {[author |-> authorID, pos |-> GeneratePosition(left, right, authorID)]}
    /\ UNCHANGED <<left, right, cmpVars, docVars, convVars, dagVars, resVars, engVars, snapVars, bcVars, lockVars, concVars, raceVars, storeVars, cmVars, regVars>>

NextGenerate == \E authorID \in GenAuthors : Generate(authorID)

SpecGenerate == InitGenerate /\ [][NextGenerate]_vars

(* --------------------- Compare / Key as a state machine ---------------- *)

InitCompare ==
    /\ p \in CmpPositions
    /\ q \in CmpPositions
    /\ r \in CmpPositions
    /\ compared = {}
    /\ IdleGen /\ IdleDoc /\ IdleConv /\ IdleDag /\ IdleRes /\ IdleEng /\ IdleSnap /\ IdleBc /\ IdleLock /\ IdleConc /\ IdleRace /\ IdleStore /\ IdleCm /\ IdleReg

\* The comparisons and keys of the three positions, as the code returns them.
DoCompare ==
    /\ compared = {}
    /\ compared' = {[pq |-> Compare(p, q), qp |-> Compare(q, p),
                     qr |-> Compare(q, r), pr |-> Compare(p, r),
                     keyP |-> Key(p), keyQ |-> Key(q)]}
    /\ UNCHANGED <<p, q, r, genVars, docVars, convVars, dagVars, resVars, engVars, snapVars, bcVars, lockVars, concVars, raceVars, storeVars, cmVars, regVars>>

NextCompare == DoCompare

SpecCompare == InitCompare /\ [][NextCompare]_vars

(* --------------------- a Document as a state machine ------------------- *)

\* Positions used on documents: the invalid one without segments, and three
\* valid ones of which the last two have the same key.
DocPositions ==
    {Absent,
     <<PositionSegment(1, AuthorA)>>,
     <<PositionSegment(0, AuthorAB)>>,
     <<PositionSegment(0, AuthorA), PositionSegment(0, AuthorB)>>}

Contents == {"x", "y"}
OperationIDs == {"o1", "o2"}

\* The operations handed to ApplyOperation; a delete or move carries no content.
Operations ==
    {[ID |-> id, Type |-> OpInsert, Position |-> pos, Content |-> c] :
        id \in OperationIDs, pos \in DocPositions, c \in Contents}
    \cup
    {[ID |-> id, Type |-> t, Position |-> pos, Content |-> ""] :
        id \in OperationIDs, t \in {OpDelete, OpMove}, pos \in DocPositions}

Init ==
    /\ doc = NewDocument
    /\ call = NoCall
    /\ IdleGen /\ IdleCmp /\ IdleConv /\ IdleDag /\ IdleRes /\ IdleEng /\ IdleSnap /\ IdleBc /\ IdleLock /\ IdleConc /\ IdleRace /\ IdleStore /\ IdleCm /\ IdleReg

DoInsertConstruct(pos, content) ==
    /\ doc.Version < MaxVersion
    /\ LET res == InsertConstruct(doc,
                      Construct("c", content, pos, NoOperation, NoOperation))
       IN  /\ doc' = res.doc
           /\ call' = Call("InsertConstruct", "", pos, res.err, doc.ContentHash)
    /\ UNCHANGED <<genVars, cmpVars, convVars, dagVars, resVars, engVars, snapVars, bcVars, lockVars, concVars, raceVars, storeVars, cmVars, regVars>>

DoDeleteConstruct(pos) ==
    /\ doc.Version < MaxVersion
    /\ LET res == DeleteConstruct(doc, pos)
       IN  /\ doc' = res.doc
           /\ call' = Call("DeleteConstruct", "", pos, res.err, doc.ContentHash)
    /\ UNCHANGED <<genVars, cmpVars, convVars, dagVars, resVars, engVars, snapVars, bcVars, lockVars, concVars, raceVars, storeVars, cmVars, regVars>>

DoApplyOperation(op) ==
    /\ doc.Version < MaxVersion
    /\ LET res == ApplyOperation(doc, op)
       IN  /\ doc' = res.doc
           /\ call' = Call("ApplyOperation", op.Type, op.Position, res.err,
                           doc.ContentHash)
    /\ UNCHANGED <<genVars, cmpVars, convVars, dagVars, resVars, engVars, snapVars, bcVars, lockVars, concVars, raceVars, storeVars, cmVars, regVars>>

Next ==
    \/ \E pos \in DocPositions, content \in Contents : DoInsertConstruct(pos, content)
    \/ \E pos \in DocPositions : DoDeleteConstruct(pos)
    \/ \E op \in Operations : DoApplyOperation(op)

Spec == Init /\ [][Next]_vars

(* ------------- replaying one set of operations on two documents -------- *)

\* Two valid positions with different keys.
ReplayPositions ==
    {<<PositionSegment(1, AuthorA)>>, <<PositionSegment(0, AuthorAB)>>}

\* Insert and delete operations with the parent edges their submitter gave
\* (o2 may name o1); the two identifiers insert different text.
ReplayOperations ==
    {[ID |-> id, Type |-> OpInsert, Position |-> pos,
      Content |-> IF id = "o1" THEN "x" ELSE "y", Parents |-> ps] :
        id \in OperationIDs, pos \in ReplayPositions, ps \in SUBSET OperationIDs}
    \cup
    {[ID |-> id, Type |-> OpDelete, Position |-> pos, Content |-> "", Parents |-> ps] :
        id \in OperationIDs, pos \in ReplayPositions, ps \in SUBSET OperationIDs}

IDsOf(ops) == {op.ID : op \in ops}

\* A DAG: identifiers are unique, parents are in the set, edges go one way.
IsDAG(ops) ==
    /\ \A o1, o2 \in ops : o1.ID = o2.ID => o1 = o2
    /\ \A op \in ops : op.Parents \subseteq IDsOf(ops)
    /\ \A op \in ops : \A parent \in op.Parents : parent \in {"o1"} /\ op.ID = "o2"

\* No operation with this identifier, or one of them.
AtMostOne(id) == {{}} \cup {{op} : op \in {o \in ReplayOperations : o.ID = id}}

InitConverge ==
    /\ opSet \in {ops \in {first \cup second : first \in AtMostOne("o1"),
                                               second \in AtMostOne("o2")} :
                    ops # {} /\ IsDAG(ops)}
    /\ replicas = [rep \in Replicas |-> NewDocument]
    /\ applied = [rep \in Replicas |-> {}]
    /\ IdleGen /\ IdleCmp /\ IdleDoc /\ IdleDag /\ IdleRes /\ IdleEng /\ IdleSnap /\ IdleBc /\ IdleLock /\ IdleConc /\ IdleRace /\ IdleStore /\ IdleCm /\ IdleReg

\* A replica applies an operation it has not applied, all of whose parents it
\* has applied; an error returned by ApplyOperation leaves its document as is.
Replay(rep, op) ==
    /\ op.ID \notin applied[rep]
    /\ op.Parents \subseteq applied[rep]
    /\ replicas' = [replicas EXCEPT ![rep] = ApplyOperation(@, op).doc]
    /\ applied' = [applied EXCEPT ![rep] = @ \cup {op.ID}]
    /\ UNCHANGED <<opSet, genVars, cmpVars, docVars, dagVars, resVars, engVars, snapVars, bcVars, lockVars, concVars, raceVars, storeVars, cmVars, regVars>>

NextConverge == \E rep \in Replicas : \E op \in opSet : Replay(rep, op)

SpecConverge == InitConverge /\ [][NextConverge]_vars

(* ------------------- the operation DAG as a state machine -------------- *)

DagIDs == {"o1", "o2", "o3", "o4"}

DagOp(id, type, author, parents) ==
    [ID |-> id, Type |-> type, Position |-> <<PositionSegment(1, AuthorA)>>,
     Content |-> "x", Author |-> author, Parents |-> parents]

\* The operations handed to AddOperation. Parents name smaller identifiers
\* only, so every stored set is acyclic; o2, o3, o4 can form a diamond over
\* o1; o1 comes with and without an author, o2 with a kind that is none of
\* insert, delete, move, and with two parent lists under one identifier.
DagOperations ==
    {DagOp("o1", OpInsert, a, <<>>) : a \in {AuthorA, NoAuthor}}
    \cup {DagOp("o2", t, AuthorA, ps) : t \in {OpInsert, "rename"},
                                        ps \in {<<>>, <<"o1">>}}
    \cup {DagOp("o3", OpDelete, AuthorA, <<"o1">>)}
    \cup {DagOp("o4", OpMove, AuthorA, ps) : ps \in {<<"o2", "o3">>, <<"o3">>}}

InitDAG ==
    /\ dag = NewOperationDAG
    /\ dagCall = NoDagCall
    /\ IdleGen /\ IdleCmp /\ IdleDoc /\ IdleConv /\ IdleRes /\ IdleEng /\ IdleSnap /\ IdleBc /\ IdleLock /\ IdleConc /\ IdleRace /\ IdleStore /\ IdleCm /\ IdleReg

DoAddOperation(op) ==
    /\ LET res == AddOperation(dag, op)
       IN  /\ dag' = res.dag
           /\ dagCall' = DagCall("AddOperation", op, "", res.err, <<>>)
    /\ UNCHANGED <<genVars, cmpVars, docVars, convVars, resVars, engVars, snapVars, bcVars, lockVars, concVars, raceVars, storeVars, cmVars, regVars>>

DoGetCausalHistory(id) ==
    /\ LET res == GetCausalHistory(dag, id)
       IN  dagCall' = DagCall("GetCausalHistory", NilOperation, id, res.err,
                              res.history)
    /\ UNCHANGED <<dag, genVars, cmpVars, docVars, convVars, resVars, engVars, snapVars, bcVars, lockVars, concVars, raceVars, storeVars, cmVars, regVars>>

NextDAG ==
    \/ \E op \in DagOperations \cup {NilOperation} : DoAddOperation(op)
    \/ \E id \in DagIDs : DoGetCausalHistory(id)

SpecDAG == InitDAG /\ [][NextDAG]_vars

(* ------------------ the address resolver as a state machine ------------ *)

Pos1 == <<PositionSegment(1, AuthorA)>>
Pos2 == <<PositionSegment(2, AuthorA)>>
Pos3 == <<PositionSegment(3, AuthorA)>>

ResOp(id, type, pos) ==
    [ID |-> id, Type |-> type, Position |-> pos,
     Content |-> IF type = OpInsert THEN "x" ELSE "",
     Author |-> AuthorA, Parents |-> <<>>]

\* The operations handed to the resolver: an insert and a delete inside the
\* first range, a move onto the second, and an insert whose position has no
\* segments.
ResOperations ==
    {ResOp("o1", OpInsert, Pos1), ResOp("o2", OpDelete, Pos2),
     ResOp("o3", OpMove, Pos3), ResOp("o4", OpInsert, Absent)}

ResRanges == {PositionRange(Pos1, Pos2), PositionRange(Pos3, Pos3)}

Repository == "repo"

\* The addresses a caller may hold: made over the creating operation o1.
ResAddresses == {NewStableAddress(Repository, "o1", pr) : pr \in ResRanges}

\* The documents handed to IndexDocument: "x" at Pos1, then also "y" at Pos3.
DocumentX ==
    InsertConstruct(NewDocument, Construct("c1", "x", Pos1, "o1", "o1")).doc
DocumentXY ==
    InsertConstruct(DocumentX, Construct("c2", "y", Pos3, "o1", "o1")).doc
ResDocuments == {DocumentX, DocumentXY}

InitResolver ==
    /\ resolver = NewAddressResolver
    /\ resCall = NoResCall
    /\ IdleGen /\ IdleCmp /\ IdleDoc /\ IdleConv /\ IdleDag /\ IdleEng /\ IdleSnap /\ IdleBc /\ IdleLock /\ IdleConc /\ IdleRace /\ IdleStore /\ IdleCm /\ IdleReg

DoIndexOperation(op) ==
    /\ LET res == IndexOperation(resolver, op)
       IN  /\ resolver' = res.resolver
           /\ resCall' = ResCall("IndexOperation", op, NoAddress, res.value, res.err)
    /\ UNCHANGED <<genVars, cmpVars, docVars, convVars, dagVars, engVars, snapVars, bcVars, lockVars, concVars, raceVars, storeVars, cmVars, regVars>>

DoIndexDocument(d) ==
    /\ LET res == IndexDocument(resolver, d)
       IN  /\ resolver' = res.resolver
           /\ resCall' = ResCall("IndexDocument", NilOperation, NoAddress,
                                 res.value, res.err)
    /\ UNCHANGED <<genVars, cmpVars, docVars, convVars, dagVars, engVars, snapVars, bcVars, lockVars, concVars, raceVars, storeVars, cmVars, regVars>>

DoCreateAddress(creationOpID, posRange) ==
    /\ LET res == CreateAddress(resolver, Repository, creationOpID, posRange)
       IN  /\ resolver' = res.resolver
           /\ resCall' = ResCall("CreateAddress", NilOperation,
                                 NewStableAddress(Repository, creationOpID, posRange),
                                 res.value, res.err)
    /\ UNCHANGED <<genVars, cmpVars, docVars, convVars, dagVars, engVars, snapVars, bcVars, lockVars, concVars, raceVars, storeVars, cmVars, regVars>>

DoResolveAddress(addr) ==
    /\ LET res == ResolveAddress(resolver, addr)
       IN  /\ resolver' = res.resolver
           /\ resCall' = ResCall("ResolveAddress", NilOperation, addr,
                                 res.value, res.err)
    /\ UNCHANGED <<genVars, cmpVars, docVars, convVars, dagVars, engVars, snapVars, bcVars, lockVars, concVars, raceVars, storeVars, cmVars, regVars>>

DoProcessOperation(op) ==
    /\ \A k \in DOMAIN resolver.addressIndex :
           Len(resolver.addressIndex[k].MovementHistory) < MaxHistory
    /\ LET res == ProcessOperation(resolver, op)
       IN  /\ resolver' = res.resolver
           /\ resCall' = ResCall("ProcessOperation", op, NoAddress, res.value, res.err)
    /\ UNCHANGED <<genVars, cmpVars, docVars, convVars, dagVars, engVars, snapVars, bcVars, lockVars, concVars, raceVars, storeVars, cmVars, regVars>>

DoUpdateAddressLocation(addr, newRange, causedBy, reason) ==
    /\ \A k \in DOMAIN resolver.addressIndex :
           Len(resolver.addressIndex[k].MovementHistory) < MaxHistory
    /\ LET res == UpdateAddressLocation(resolver, addr, newRange, causedBy, reason)
       IN  /\ resolver' = res.resolver
           /\ resCall' = ResCallWith("UpdateAddressLocation", NilOperation, addr,
                                     newRange, causedBy, reason, res.value, res.err)
    /\ UNCHANGED <<genVars, cmpVars, docVars, convVars, dagVars, engVars, snapVars, bcVars, lockVars, concVars, raceVars, storeVars, cmVars, regVars>>

DoInvalidateAddress(addr, reason) ==
    /\ \A k \in DOMAIN resolver.addressIndex :
           Len(resolver.addressIndex[k].MovementHistory) < MaxHistory
    /\ LET res == InvalidateAddress(resolver, addr, reason)
       IN  /\ resolver' = res.resolver
           /\ resCall' = ResCallWith("InvalidateAddress", NilOperation, addr,
                                     ZeroRange, NoOperation, reason, res.value, res.err)
    /\ UNCHANGED <<genVars, cmpVars, docVars, convVars, dagVars, engVars, snapVars, bcVars, lockVars, concVars, raceVars, storeVars, cmVars, regVars>>

DoGetAddressHistory(addr) ==
    /\ LET res == GetAddressHistory(resolver, addr)
       IN  /\ resolver' = res.resolver
           /\ resCall' = ResCall("GetAddressHistory", NilOperation, addr,
                                 res.value, res.err)
    /\ UNCHANGED <<genVars, cmpVars, docVars, convVars, dagVars, engVars, snapVars, bcVars, lockVars, concVars, raceVars, storeVars, cmVars, regVars>>

\* The ranges an address is moved to: the two ranges addresses are made
\* over, and a range whose start lies after its end.
UpdateRanges == ResRanges \cup {PositionRange(Pos2, Pos1)}

NextResolver ==
    \/ DoIndexOperation(ResOp("o1", OpInsert, Pos1))
    \/ \E d \in ResDocuments : DoIndexDocument(d)
    \/ \E pr \in ResRanges : DoCreateAddress("o1", pr)
    \/ \E addr \in ResAddresses : DoResolveAddress(addr)
    \/ \E op \in ResOperations : DoProcessOperation(op)

SpecResolver == InitResolver /\ [][NextResolver]_vars

\* The resolver with its addresses moved and invalidated by its callers.
NextResolverMoves ==
    \/ DoIndexOperation(ResOp("o1", OpInsert, Pos1))
    \/ \E d \in ResDocuments : DoIndexDocument(d)
    \/ \E pr \in ResRanges : DoCreateAddress("o1", pr)
    \/ \E addr \in ResAddresses : DoResolveAddress(addr)
    \/ \E addr \in ResAddresses, newRange \in UpdateRanges :
           DoUpdateAddressLocation(addr, newRange, "o2", MovementRefactor)
    \/ \E addr \in ResAddresses : DoInvalidateAddress(addr, MovementDelete)
    \/ \E addr \in ResAddresses : DoGetAddressHistory(addr)

SpecResolverMoves == InitResolver /\ [][NextResolverMoves]_vars

\* The resolver with addresses made under two repository ids.
Repositories == {Repository, "repo-fork"}

RepoAddresses ==
    {NewStableAddress(repo, "o1", pr) : repo \in Repositories, pr \in ResRanges}

DoCreateAddressIn(repo, creationOpID, posRange) ==
    /\ LET res == CreateAddress(resolver, repo, creationOpID, posRange)
       IN  /\ resolver' = res.resolver
           /\ resCall' = ResCall("CreateAddress", NilOperation,
                                 NewStableAddress(repo, creationOpID, posRange),
                                 res.value, res.err)
    /\ UNCHANGED <<genVars, cmpVars, docVars, convVars, dagVars, engVars, snapVars, bcVars, lockVars, concVars, raceVars, storeVars, cmVars, regVars>>

NextResolverRepos ==
    \/ DoIndexOperation(ResOp("o1", OpInsert, Pos1))
    \/ \E repo \in Repositories, pr \in ResRanges : DoCreateAddressIn(repo, "o1", pr)
    \/ \E addr \in RepoAddresses : DoResolveAddress(addr)
    \/ \E addr \in RepoAddresses, newRange \in UpdateRanges :
           DoUpdateAddressLocation(addr, newRange, "o2", MovementRefactor)
    \/ \E addr \in RepoAddresses : DoInvalidateAddress(addr, MovementDelete)

SpecResolverRepos == InitResolver /\ [][NextResolverRepos]_vars

(* ------------- the records ResolveAddress hands to its callers ----------- *)

\* The capacity of a movement log of n records: it starts from
\* make([]MovementRecord, 0) and grows by append, one record at a time, which
\* doubles a full backing array.
RECURSIVE HistoryCap(_)
HistoryCap(n) ==
    IF n = 0 THEN 0
    ELSE LET c == HistoryCap(n - 1)
         IN  IF n - 1 < c THEN c ELSE IF c = 0 THEN 1 ELSE 2 * c

\* What a resolver method leaves of the sharing between the caller's record
\* and the resolver's: a record made anew shares nothing, an append to a full
\* log moves the log to a new array, and a new construct list is a new array.
AfterResolverStep(snap, before, after, newConstructs) ==
    IF ~snap.taken \/ snap.key \notin DOMAIN before.addressIndex
                   \/ snap.key \notin DOMAIN after.addressIndex
    THEN snap
    ELSE LET old == before.addressIndex[snap.key]
             new == after.addressIndex[snap.key]
             appended == Len(new.MovementHistory) > Len(old.MovementHistory)
             moved == appended /\ Len(old.MovementHistory)
                                      = HistoryCap(Len(old.MovementHistory))
         IN  [snap EXCEPT
                 !.sharesHistory = @ /\ ~moved,
                 !.sharesConstructs = @ /\ ~(newConstructs /\ appended)]

SnapIndexOperation(op) ==
    /\ resolver' = IndexOperation(resolver, op).resolver
    /\ resCall' = ResCall("IndexOperation", op, NoAddress, NoResolved, Nil)
    /\ UNCHANGED snapshot
    /\ UNCHANGED <<genVars, cmpVars, docVars, convVars, dagVars, engVars, bcVars, lockVars, concVars, raceVars, storeVars, cmVars, regVars>>

SnapIndexDocument(d) ==
    /\ resolver' = IndexDocument(resolver, d).resolver
    /\ resCall' = ResCall("IndexDocument", NilOperation, NoAddress, NoResolved, Nil)
    /\ UNCHANGED snapshot
    /\ UNCHANGED <<genVars, cmpVars, docVars, convVars, dagVars, engVars, bcVars, lockVars, concVars, raceVars, storeVars, cmVars, regVars>>

\* CreateAddress stores a new record under the key: one made again under the
\* key of the caller's record shares nothing with it.
SnapCreateAddress(creationOpID, posRange) ==
    /\ LET res == CreateAddress(resolver, Repository, creationOpID, posRange)
       IN  /\ resolver' = res.resolver
           /\ resCall' = ResCall("CreateAddress", NilOperation,
                                 NewStableAddress(Repository, creationOpID, posRange),
                                 res.value, res.err)
           /\ snapshot' =
                  IF /\ snapshot.taken /\ res.err = Nil
                     /\ snapshot.key = AddressKey(res.value)
                  THEN [snapshot EXCEPT !.sharesHistory = FALSE,
                                        !.sharesConstructs = FALSE]
                  ELSE snapshot
    /\ UNCHANGED <<genVars, cmpVars, docVars, convVars, dagVars, engVars, bcVars, lockVars, concVars, raceVars, storeVars, cmVars, regVars>>

SnapUpdateAddressLocation(addr, newRange, causedBy, reason) ==
    /\ \A k \in DOMAIN resolver.addressIndex :
           Len(resolver.addressIndex[k].MovementHistory) < MaxHistory
    /\ LET res == UpdateAddressLocation(resolver, addr, newRange, causedBy, reason)
       IN  /\ resolver' = res.resolver
           /\ resCall' = ResCallWith("UpdateAddressLocation", NilOperation, addr,
                                     newRange, causedBy, reason, res.value, res.err)
           /\ snapshot' = AfterResolverStep(snapshot, resolver, res.resolver, TRUE)
    /\ UNCHANGED <<genVars, cmpVars, docVars, convVars, dagVars, engVars, bcVars, lockVars, concVars, raceVars, storeVars, cmVars, regVars>>

SnapInvalidateAddress(addr, reason) ==
    /\ \A k \in DOMAIN resolver.addressIndex :
           Len(resolver.addressIndex[k].MovementHistory) < MaxHistory
    /\ LET res == InvalidateAddress(resolver, addr, reason)
       IN  /\ resolver' = res.resolver
           /\ resCall' = ResCallWith("InvalidateAddress", NilOperation, addr,
                                     ZeroRange, NoOperation, reason, res.value, res.err)
           /\ snapshot' = AfterResolverStep(snapshot, resolver, res.resolver, FALSE)
    /\ UNCHANGED <<genVars, cmpVars, docVars, convVars, dagVars, engVars, bcVars, lockVars, concVars, raceVars, storeVars, cmVars, regVars>>

SnapProcessOperation(op) ==
    /\ \A k \in DOMAIN resolver.addressIndex :
           Len(resolver.addressIndex[k].MovementHistory) < MaxHistory
    /\ LET res == ProcessOperation(resolver, op)
       IN  /\ resolver' = res.resolver
           /\ resCall' = ResCall("ProcessOperation", op, NoAddress, res.value, res.err)
           /\ snapshot' = AfterResolverStep(snapshot, resolver, res.resolver, TRUE)
    /\ UNCHANGED <<genVars, cmpVars, docVars, convVars, dagVars, engVars, bcVars, lockVars, concVars, raceVars, storeVars, cmVars, regVars>>

\* ResolveAddress returns a new struct whose Constructs and MovementHistory
\* are the slices of the resolver's record: a slice of capacity 0 has no
\* backing array to share.
SnapResolveAddress(addr) ==
    /\ LET res == ResolveAddress(resolver, addr)
       IN  /\ resolver' = res.resolver
           /\ resCall' = ResCall("ResolveAddress", NilOperation, addr,
                                 res.value, res.err)
           /\ snapshot' =
                  IF res.err # Nil THEN snapshot
                  ELSE Snapshot(AddressKey(addr), res.value,
                                res.value.MovementHistory # <<>>,
                                res.value.Constructs # {})
    /\ UNCHANGED <<genVars, cmpVars, docVars, convVars, dagVars, engVars, bcVars, lockVars, concVars, raceVars, storeVars, cmVars, regVars>>

SnapGetAddressHistory(addr) ==
    /\ LET res == GetAddressHistory(resolver, addr)
       IN  /\ resolver' = res.resolver
           /\ resCall' = ResCall("GetAddressHistory", NilOperation, addr,
                                 res.value, res.err)
    /\ UNCHANGED snapshot
    /\ UNCHANGED <<genVars, cmpVars, docVars, convVars, dagVars, engVars, bcVars, lockVars, concVars, raceVars, storeVars, cmVars, regVars>>

\* The reason a caller writes into a movement record it holds, and the
\* construct it puts into a construct list it holds.
CallerReason == "caller"
CallerConstruct == Construct("caller", "z", Pos2, "caller", "caller")

\* The caller assigns to resolved.MovementHistory[i].Reason: the write lands
\* in the backing array, which is the resolver's while it is shared.
ModifyHistoryElement(i) ==
    /\ snapshot.taken
    /\ i \in 1..Len(snapshot.value.MovementHistory)
    /\ snapshot' = [snapshot EXCEPT
                       !.value.MovementHistory[i].Reason = CallerReason]
    /\ resolver' =
           IF snapshot.sharesHistory /\ snapshot.key \in DOMAIN resolver.addressIndex
           THEN [resolver EXCEPT
                    !.addressIndex[snapshot.key].MovementHistory[i].Reason
                        = CallerReason]
           ELSE resolver
    /\ resCall' = ResCall("ModifyHistoryElement", NilOperation,
                          snapshot.value.Address, NoResolved, Nil)
    /\ UNCHANGED <<genVars, cmpVars, docVars, convVars, dagVars, engVars, bcVars, lockVars, concVars, raceVars, storeVars, cmVars, regVars>>

\* The caller assigns to an element of resolved.Constructs.
ModifyConstructElement(c) ==
    /\ snapshot.taken
    /\ c \in snapshot.value.Constructs
    /\ snapshot' = [snapshot EXCEPT
                       !.value.Constructs = (@ \ {c}) \cup {CallerConstruct}]
    /\ resolver' =
           IF snapshot.sharesConstructs /\ snapshot.key \in DOMAIN resolver.addressIndex
           THEN [resolver EXCEPT
                    !.addressIndex[snapshot.key].Constructs
                        = (@ \ {c}) \cup {CallerConstruct}]
           ELSE resolver
    /\ resCall' = ResCall("ModifyConstructElement", NilOperation,
                          snapshot.value.Address, NoResolved, Nil)
    /\ UNCHANGED <<genVars, cmpVars, docVars, convVars, dagVars, engVars, bcVars, lockVars, concVars, raceVars, storeVars, cmVars, regVars>>

\* The constructs of the document handed to IndexDocument.
IndexedConstructs ==
    {DocumentXY.Constructs[k] : k \in DOMAIN DocumentXY.Constructs}

InitSnapshot ==
    /\ resolver = NewAddressResolver
    /\ resCall = NoResCall
    /\ snapshot = NoSnapshot
    /\ IdleGen /\ IdleCmp /\ IdleDoc /\ IdleConv /\ IdleDag /\ IdleEng /\ IdleBc /\ IdleLock /\ IdleConc /\ IdleRace /\ IdleStore /\ IdleCm /\ IdleReg

\* The address the caller holds: made by o1 over the first range.
SnapRange == PositionRange(Pos1, Pos2)
SnapAddress == NewStableAddress(Repository, "o1", SnapRange)

NextSnapshot ==
    \/ SnapIndexOperation(ResOp("o1", OpInsert, Pos1))
    \/ SnapIndexDocument(DocumentXY)
    \/ SnapCreateAddress("o1", SnapRange)
    \/ \E newRange \in ResRanges :
           SnapUpdateAddressLocation(SnapAddress, newRange, "o2", MovementRefactor)
    \/ SnapInvalidateAddress(SnapAddress, MovementDelete)
    \/ SnapProcessOperation(ResOp("o3", OpMove, Pos3))
    \/ SnapResolveAddress(SnapAddress)
    \/ SnapGetAddressHistory(SnapAddress)
    \/ \E i \in 1..MaxHistory : ModifyHistoryElement(i)
    \/ \E c \in IndexedConstructs : ModifyConstructElement(c)

SpecSnapshot == InitSnapshot /\ [][NextSnapshot]_vars

(* ---------------- the collaboration engine as a state machine ---------- *)

EngOp(id, type, pos, author, documentID, sessionID) ==
    [ID |-> id, Type |-> type, Position |-> pos,
     Content |-> IF type = OpInsert THEN "x" ELSE "",
     Author |-> author, Parents |-> <<>>,
     DocumentID |-> documentID, SessionID |-> sessionID]

\* The operations submitted to the engine: an insert and a delete at one
\* position of document d1, a move, an insert without author, and an insert
\* that names neither document nor session.
EngOperations ==
    {EngOp("o1", OpInsert, Pos1, AuthorA, "d1", ""),
     EngOp("o2", OpDelete, Pos1, AuthorA, "d1", ""),
     EngOp("o3", OpMove, Pos3, AuthorA, "d1", ""),
     EngOp("o4", OpInsert, Pos3, NoAuthor, "d1", ""),
     EngOp("o5", OpInsert, Pos3, AuthorA, "", "")}

\* The range over which addresses are made in the engine.
EngRange == PositionRange(Pos1, Pos2)

\* Which storage call of a ProcessOperation run fails, if any.
Failures == {"none", "store-operation", "load-document", "store-document"}

Client == "client1"

InitEngine ==
    /\ engine = NewCollaborationEngine
    /\ engCall = NoEngCall
    /\ IdleGen /\ IdleCmp /\ IdleDoc /\ IdleConv /\ IdleDag /\ IdleRes /\ IdleSnap /\ IdleBc /\ IdleLock /\ IdleConc /\ IdleRace /\ IdleStore /\ IdleCm /\ IdleReg

DoEngineProcessOperation(op, fail) ==
    /\ Len(engine.broadcasts) < MaxBroadcasts
    /\ \A id \in DOMAIN engine.documents : engine.documents[id].Version < MaxVersion
    /\ \A k \in DOMAIN engine.addressResolver.addressIndex :
           Len(engine.addressResolver.addressIndex[k].MovementHistory) < MaxHistory
    /\ LET res == EngineProcessOperation(engine, op, Client, fail)
       IN  /\ engine' = res.engine
           /\ engCall' = EngCall("ProcessOperation", op, res.err, res.steps)
    /\ UNCHANGED <<genVars, cmpVars, docVars, convVars, dagVars, resVars, snapVars, bcVars, lockVars, concVars, raceVars, storeVars, cmVars, regVars>>

DoCreateStableAddress(creationOpID, posRange) ==
    /\ LET res == CreateStableAddress(engine, Repository, creationOpID, posRange)
       IN  /\ engine' = res.engine
           /\ engCall' = EngCall("CreateStableAddress", NilOperation, res.err, <<>>)
    /\ UNCHANGED <<genVars, cmpVars, docVars, convVars, dagVars, resVars, snapVars, bcVars, lockVars, concVars, raceVars, storeVars, cmVars, regVars>>

NextEngine ==
    \/ \E op \in EngOperations, fail \in Failures : DoEngineProcessOperation(op, fail)
    \/ DoCreateStableAddress("o1", EngRange)

SpecEngine == InitEngine /\ [][NextEngine]_vars

\* The engine given operations with and without a document id and a session
\* id in their metadata.
SessionOperations ==
    {EngOp("o1", OpInsert, Pos1, AuthorA, "d1", "s1"),
     EngOp("o5", OpInsert, Pos3, AuthorA, "", ""),
     EngOp("o6", OpInsert, Pos3, AuthorA, "", "s1"),
     EngOp("o7", OpDelete, Pos3, AuthorA, "", "s2")}

NextEngineSession ==
    \E op \in SessionOperations, fail \in Failures : DoEngineProcessOperation(op, fail)

SpecEngineSession == InitEngine /\ [][NextEngineSession]_vars

\* The engine given two inserts inside the range of an address and a delete
\* of the first.
EditOperations ==
    {EngOp("o1", OpInsert, Pos1, AuthorA, "d1", ""),
     EngOp("o2", OpDelete, Pos1, AuthorA, "d1", ""),
     EngOp("o8", OpInsert, Pos2, AuthorA, "d1", "")}

NextEngineEdit ==
    \/ \E op \in EditOperations, fail \in Failures : DoEngineProcessOperation(op, fail)
    \/ DoCreateStableAddress("o1", EngRange)

SpecEngineEdit == InitEngine /\ [][NextEngineEdit]_vars

(* ---------------- client connections and the broadcast ------------------- *)

ErrConnectionClosed == "connection closed"
ErrSendBufferFull == "send buffer full"
ErrClientNotFound == "client not found"
PanicSendOnClosed == "panic: send on closed channel"

\* A ClientConnection: the documents it is subscribed to, the messages in
\* sendChan, and whether Close has closed closeChan and sendChan.
NewClientConnection == [Documents |-> {}, sendChan |-> <<>>, closed |-> FALSE]

Close(c) == [c EXCEPT !.closed = TRUE]

SubscribeToDocument(c, documentID) == [c EXCEPT !.Documents = @ \cup {documentID}]

IsSubscribedTo(c, documentID) == documentID \in c.Documents

\* SendMessage: a select over the send on sendChan, the receive on closeChan
\* and default.  On a closed connection both the send (sendChan is closed:
\* it panics) and the receive can proceed and the runtime picks one of them;
\* pick is the case it takes.
SendMessage(c, msg, pick) ==
    IF c.closed
    THEN IF pick = "send" THEN [conn |-> c, err |-> PanicSendOnClosed]
                          ELSE [conn |-> c, err |-> ErrConnectionClosed]
    ELSE IF Len(c.sendChan) < SendBufferSize
         THEN [conn |-> [c EXCEPT !.sendChan = Append(@, msg)], err |-> Nil]
         ELSE [conn |-> c, err |-> ErrSendBufferFull]

\* The loop of BroadcastOperation over ce.clients, in the order the map
\* iteration yields them; an error of SendMessage is logged, a panic ends
\* the call.
RECURSIVE BroadcastLoop(_, _, _, _, _, _)
BroadcastLoop(cs, msg, documentID, excludeClient, order, picks) ==
    IF order = <<>> THEN [clients |-> cs, err |-> Nil]
    ELSE LET clientID == Head(order)
         IN  IF clientID = excludeClient \/ ~IsSubscribedTo(cs[clientID], documentID)
             THEN BroadcastLoop(cs, msg, documentID, excludeClient, Tail(order), picks)
             ELSE LET pick == IF clientID \in DOMAIN picks THEN picks[clientID]
                                                            ELSE "send"
                      sent == SendMessage(cs[clientID], msg, pick)
                  IN  IF sent.err = PanicSendOnClosed
                      THEN [clients |-> cs, err |-> PanicSendOnClosed]
                      ELSE BroadcastLoop([cs EXCEPT ![clientID] = sent.conn], msg,
                                         documentID, excludeClient, Tail(order), picks)

\* The orders in which a range over a map of these keys can yield them.
Orders(S) ==
    {o \in [1..Cardinality(S) -> S] : \A i, j \in 1..Cardinality(S) :
                                          i # j => o[i] # o[j]}

ClientIDs == {"client1", "client2", "client3"}
BcDocuments == {"d1"}

InitBroadcast ==
    /\ clients = EmptyMap
    /\ bcCall = NoBcCall
    /\ IdleGen /\ IdleCmp /\ IdleDoc /\ IdleConv /\ IdleDag /\ IdleRes /\ IdleEng /\ IdleLock /\ IdleConc /\ IdleRace
    /\ IdleSnap /\ IdleStore /\ IdleCm /\ IdleReg

DoAddClient(clientID) ==
    /\ clients' = MapPut(clients, clientID, NewClientConnection)
    /\ bcCall' = BcCall("AddClient", clientID, "", NoOperation, Nil)
    /\ UNCHANGED <<genVars, cmpVars, docVars, convVars, dagVars, resVars, engVars, snapVars, lockVars, concVars, raceVars, storeVars, cmVars, regVars>>

\* RemoveClient takes the connection out of the map and closes it.
DoRemoveClient(clientID) ==
    /\ IF clientID \in DOMAIN clients
       THEN /\ clients' = MapDelete(clients, clientID)
            /\ bcCall' = BcCall("RemoveClient", clientID, "", NoOperation, Nil)
       ELSE /\ clients' = clients
            /\ bcCall' = BcCall("RemoveClient", clientID, "", NoOperation,
                                ErrClientNotFound)
    /\ UNCHANGED <<genVars, cmpVars, docVars, convVars, dagVars, resVars, engVars, snapVars, lockVars, concVars, raceVars, storeVars, cmVars, regVars>>

DoSubscribeToDocument(clientID, documentID) ==
    /\ clientID \in DOMAIN clients
    /\ clients' = [clients EXCEPT ![clientID] = SubscribeToDocument(@, documentID)]
    /\ bcCall' = BcCall("SubscribeToDocument", clientID, documentID, NoOperation, Nil)
    /\ UNCHANGED <<genVars, cmpVars, docVars, convVars, dagVars, resVars, engVars, snapVars, lockVars, concVars, raceVars, storeVars, cmVars, regVars>>

\* readPump or writePump returns (the peer went away, a write failed): the
\* deferred Close runs; the connection stays in the engine's map.
PumpExit(clientID) ==
    /\ clientID \in DOMAIN clients
    /\ ~clients[clientID].closed
    /\ clients' = [clients EXCEPT ![clientID] = Close(@)]
    /\ bcCall' = BcCall("Close", clientID, "", NoOperation, Nil)
    /\ UNCHANGED <<genVars, cmpVars, docVars, convVars, dagVars, resVars, engVars, snapVars, lockVars, concVars, raceVars, storeVars, cmVars, regVars>>

\* writePump takes a message from sendChan and writes it to the socket.
writePump(clientID) ==
    /\ clientID \in DOMAIN clients
    /\ ~clients[clientID].closed
    /\ clients[clientID].sendChan # <<>>
    /\ clients' = [clients EXCEPT ![clientID].sendChan = Tail(@)]
    /\ bcCall' = BcCall("writePump", clientID, "", NoOperation, Nil)
    /\ UNCHANGED <<genVars, cmpVars, docVars, convVars, dagVars, resVars, engVars, snapVars, lockVars, concVars, raceVars, storeVars, cmVars, regVars>>

DoBroadcastOperation(op, documentID, excludeClient) ==
    /\ \E order \in Orders(DOMAIN clients),
          picks \in [{c \in DOMAIN clients : clients[c].closed} -> {"send", "closed"}] :
           LET res == BroadcastLoop(clients, op, documentID, excludeClient, order, picks)
           IN  /\ clients' = res.clients
               /\ bcCall' = BcCall("BroadcastOperation", excludeClient, documentID,
                                   op, res.err)
    /\ UNCHANGED <<genVars, cmpVars, docVars, convVars, dagVars, resVars, engVars, snapVars, lockVars, concVars, raceVars, storeVars, cmVars, regVars>>

NextBroadcast ==
    \/ \E c \in ClientIDs : DoAddClient(c)
    \/ \E c \in ClientIDs : DoRemoveClient(c)
    \/ \E c \in ClientIDs, d \in BcDocuments : DoSubscribeToDocument(c, d)
    \/ \E c \in ClientIDs : PumpExit(c)
    \/ \E c \in ClientIDs : writePump(c)
    \/ \E c \in ClientIDs : DoBroadcastOperation("o1", "d1", c)

SpecBroadcast == InitBroadcast /\ [][NextBroadcast]_vars

(* --------------- one connection: SendMessage against Close -------------- *)

\* SendMessage holds the connection's RLock and Close its Lock, so each is
\* one step; pick is the ready case the select takes.
DoSendMessage(clientID, msg, pick) ==
    /\ clientID \in DOMAIN clients
    /\ LET res == SendMessage(clients[clientID], msg, pick)
       IN  /\ clients' = [clients EXCEPT ![clientID] = res.conn]
           /\ bcCall' = BcCall("SendMessage", clientID, "", msg, res.err)
    /\ UNCHANGED <<genVars, cmpVars, docVars, convVars, dagVars, resVars, engVars, snapVars, lockVars, concVars, raceVars, storeVars, cmVars, regVars>>

\* Close, on an open or on a closed connection.
DoClose(clientID) ==
    /\ clientID \in DOMAIN clients
    /\ clients' = [clients EXCEPT ![clientID] = IF @.closed THEN @ ELSE Close(@)]
    /\ bcCall' = BcCall("Close", clientID, "", NoOperation, Nil)
    /\ UNCHANGED <<genVars, cmpVars, docVars, convVars, dagVars, resVars, engVars, snapVars, lockVars, concVars, raceVars, storeVars, cmVars, regVars>>

NextClient ==
    \/ \E c \in ClientIDs : DoAddClient(c)
    \/ \E c \in ClientIDs, pick \in {"send", "closed"} : DoSendMessage(c, "o1", pick)
    \/ \E c \in ClientIDs : DoClose(c)
    \/ \E c \in ClientIDs : writePump(c)

SpecClient == InitBroadcast /\ [][NextClient]_vars

(* ------------- concurrent AddClient and RemoveClient calls --------------- *)

\* The client ids the calls are made with (a client that reconnects comes
\* back under its id).
PresenceClients == {"client1", "client2"}

InitRegistry ==
    /\ registry = NewRegistry
    /\ goroutines = [g \in Threads |-> NoCaller]
    /\ IdleGen /\ IdleCmp /\ IdleDoc /\ IdleConv /\ IdleDag /\ IdleRes /\ IdleEng
    /\ IdleSnap /\ IdleBc /\ IdleLock /\ IdleConc /\ IdleRace /\ IdleStore /\ IdleCm

\* AddClient: ce.mutex.Lock() and ce.clients[client.ID] = client.
AddClientBegin(g, clientID) ==
    /\ goroutines[g].pc = "idle"
    /\ registry.mutex = 0
    /\ registry' = [registry EXCEPT !.mutex = g, !.clients = @ \cup {clientID}]
    /\ goroutines' = [goroutines EXCEPT ![g] =
                         [method |-> "AddClient", client |-> clientID,
                          pc |-> "presence", err |-> Nil]]
    /\ UNCHANGED <<genVars, cmpVars, docVars, convVars, dagVars, resVars, engVars, snapVars, bcVars, lockVars, concVars, raceVars, storeVars, cmVars>>

\* AddClient: presenceTracker.AddClient and the deferred ce.mutex.Unlock().
AddClientEnd(g) ==
    /\ goroutines[g].method = "AddClient"
    /\ goroutines[g].pc = "presence"
    /\ registry' = [registry EXCEPT !.mutex = 0,
                                    !.presence = @ \cup {goroutines[g].client}]
    /\ goroutines' = [goroutines EXCEPT ![g].pc = "done"]
    /\ UNCHANGED <<genVars, cmpVars, docVars, convVars, dagVars, resVars, engVars, snapVars, bcVars, lockVars, concVars, raceVars, storeVars, cmVars>>

\* RemoveClient: under ce.mutex, the lookup, and either the return of
\* ErrClientNotFound or delete(ce.clients, clientID); the mutex is released
\* in both cases.
RemoveClientBegin(g, clientID) ==
    /\ goroutines[g].pc = "idle"
    /\ registry.mutex = 0
    /\ IF clientID \notin registry.clients
       THEN /\ goroutines' = [goroutines EXCEPT ![g] =
                                 [method |-> "RemoveClient", client |-> clientID,
                                  pc |-> "done", err |-> ErrClientNotFound]]
            /\ UNCHANGED registry
       ELSE /\ registry' = [registry EXCEPT !.clients = @ \ {clientID}]
            /\ goroutines' = [goroutines EXCEPT ![g] =
                                 [method |-> "RemoveClient", client |-> clientID,
                                  pc |-> "presence", err |-> Nil]]
    /\ UNCHANGED <<genVars, cmpVars, docVars, convVars, dagVars, resVars, engVars, snapVars, bcVars, lockVars, concVars, raceVars, storeVars, cmVars>>

\* RemoveClient: presenceTracker.RemoveClient(clientID) and client.Close(),
\* without the engine's mutex.
RemoveClientEnd(g) ==
    /\ goroutines[g].method = "RemoveClient"
    /\ goroutines[g].pc = "presence"
    /\ registry' = [registry EXCEPT !.presence = @ \ {goroutines[g].client}]
    /\ goroutines' = [goroutines EXCEPT ![g].pc = "done"]
    /\ UNCHANGED <<genVars, cmpVars, docVars, convVars, dagVars, resVars, engVars, snapVars, bcVars, lockVars, concVars, raceVars, storeVars, cmVars>>

NextRegistry ==
    \/ \E g \in Threads, c \in PresenceClients : AddClientBegin(g, c)
    \/ \E g \in Threads : AddClientEnd(g)
    \/ \E g \in Threads, c \in PresenceClients : RemoveClientBegin(g, c)
    \/ \E g \in Threads : RemoveClientEnd(g)

SpecRegistry == InitRegistry /\ [][NextRegistry]_vars

(* ------------------- the mutexes of the components ----------------------- *)

\* The lock calls a method makes, in order: <<call, mutex>>.
Locked(m) == <<<<"Lock", m>>, <<"Unlock", m>>>>
RLocked(m) == <<<<"RLock", m>>, <<"RUnlock", m>>>>

\* getOrLoadDocument for a document not in memory: the read of the map under
\* RLock, then the write under Lock.
getOrLoadDocumentLocks == RLocked("ce") \o Locked("ce")

\* BroadcastOperation and broadcastPresence: under the engine's RLock,
\* IsSubscribedTo and SendMessage of a client.
BroadcastLocks ==
    <<<<"RLock", "ce">>>> \o RLocked("client") \o RLocked("client")
        \o <<<<"RUnlock", "ce">>>>

\* Engine ProcessOperation: AddOperation, resolver ProcessOperation,
\* getOrLoadDocument, ApplyOperation, IndexDocument, BroadcastOperation.
ProcessOperationLocks ==
    Locked("dag") \o Locked("res") \o getOrLoadDocumentLocks \o Locked("doc")
        \o Locked("res") \o BroadcastLocks

\* AddClient calls presenceTracker.AddClient under the engine's Lock.
AddClientLocks ==
    <<<<"Lock", "ce">>>> \o Locked("pt") \o <<<<"Unlock", "ce">>>>

\* RemoveClient releases the engine's Lock before presenceTracker.RemoveClient
\* and client.Close.
RemoveClientLocks == Locked("ce") \o Locked("pt") \o Locked("client")

\* SyncClient: the client lookup, getOrLoadDocument, SubscribeToDocument and
\* SendMessage.
SyncClientLocks ==
    RLocked("ce") \o getOrLoadDocumentLocks \o Locked("client") \o RLocked("client")

\* UpdatePresence that keeps the engine's RLock over all it calls.
UpdatePresenceHoldingLocks ==
    <<<<"RLock", "ce">>>> \o Locked("client") \o Locked("pt") \o BroadcastLocks
        \o <<<<"RUnlock", "ce">>>>

\* UpdatePresence: the client lookup, client.UpdatePresence,
\* presenceTracker.UpdatePresence, broadcastPresence.
UpdatePresenceLocks ==
    RLocked("ce") \o Locked("client") \o Locked("pt") \o BroadcastLocks

\* GetOperationContext: under the analyzer's RLock, GetOperation and
\* GetCausalHistory of the DAG, getConsequences (the analyzer's RLock again,
\* and GetOperation), and three reads of the conversation manager.
GetOperationContextLocks ==
    <<<<"RLock", "ca">>>> \o RLocked("dag") \o RLocked("dag")
        \o <<<<"RLock", "ca">>>> \o RLocked("dag") \o <<<<"RUnlock", "ca">>>>
        \o RLocked("cm") \o RLocked("cm") \o RLocked("cm")
        \o <<<<"RUnlock", "ca">>>>

\* The methods goroutines call, with their lock calls: those of the engine
\* and the analyzer, and direct calls on the resolver, a document, the DAG,
\* the conversation manager and a connection (readPump, then Close).
MethodLocks ==
    [ProcessOperation |-> ProcessOperationLocks,
     AddClient |-> AddClientLocks,
     RemoveClient |-> RemoveClientLocks,
     SyncClient |-> SyncClientLocks,
     UpdatePresence |-> UpdatePresenceLocks,
     GetOperationContext |-> GetOperationContextLocks,
     ResolveAddress |-> RLocked("res"),
     Render |-> RLocked("doc"),
     CreateConversation |-> Locked("cm"),
     readPump |-> Locked("client") \o Locked("client")]

Methods == DOMAIN MethodLocks

\* The layer of the component a mutex belongs to: the engine and the
\* analyzer call into the others, which call into none.
Layer(m) == IF m \in {"ce", "ca"} THEN 2 ELSE 1

Script(t) == MethodLocks[threads[t].method]
Running(t) == threads[t].method \notin {"idle", "done"}
NextCall(t) == Script(t)[threads[t].pc]
Holds(t, m) == locks[m].writer = t \/ locks[m].readers[t] > 0

Advance(t) ==
    threads' = [threads EXCEPT ![t] =
                   IF @.pc = Len(Script(t)) THEN [method |-> "done", pc |-> 0]
                   ELSE [@ EXCEPT !.pc = @ + 1]]

InitLocks ==
    /\ locks = [m \in Mutexes |-> NewRWMutex]
    /\ threads = [t \in Threads |-> IdleThread]
    /\ IdleGen /\ IdleCmp /\ IdleDoc /\ IdleConv /\ IdleDag /\ IdleRes /\ IdleEng
    /\ IdleSnap /\ IdleBc /\ IdleConc /\ IdleRace /\ IdleStore /\ IdleCm /\ IdleReg

\* A goroutine enters a method.
Enter(t, method) ==
    /\ threads[t].method = "idle"
    /\ threads' = [threads EXCEPT ![t] = [method |-> method, pc |-> 1]]
    /\ UNCHANGED locks
    /\ UNCHANGED <<genVars, cmpVars, docVars, convVars, dagVars, resVars, engVars, snapVars, bcVars, concVars, raceVars, storeVars, cmVars, regVars>>

\* Lock announces the writer, which keeps new readers out ...
LockAnnounce(t) ==
    /\ Running(t) /\ NextCall(t)[1] = "Lock"
    /\ t \notin locks[NextCall(t)[2]].pending
    /\ locks' = [locks EXCEPT ![NextCall(t)[2]].pending = @ \cup {t}]
    /\ UNCHANGED threads
    /\ UNCHANGED <<genVars, cmpVars, docVars, convVars, dagVars, resVars, engVars, snapVars, bcVars, concVars, raceVars, storeVars, cmVars, regVars>>

\* ... and returns when no goroutine holds the mutex.
LockAcquire(t) ==
    /\ Running(t) /\ NextCall(t)[1] = "Lock"
    /\ LET m == NextCall(t)[2]
       IN  /\ t \in locks[m].pending
           /\ locks[m].writer = 0
           /\ \A u \in Threads : locks[m].readers[u] = 0
           /\ locks' = [locks EXCEPT ![m].writer = t, ![m].pending = @ \ {t}]
    /\ Advance(t)
    /\ UNCHANGED <<genVars, cmpVars, docVars, convVars, dagVars, resVars, engVars, snapVars, bcVars, concVars, raceVars, storeVars, cmVars, regVars>>

\* RLock returns when no writer holds the mutex or waits for it.
RLockAcquire(t) ==
    /\ Running(t) /\ NextCall(t)[1] = "RLock"
    /\ LET m == NextCall(t)[2]
       IN  /\ locks[m].writer = 0
           /\ locks[m].pending = {}
           /\ locks' = [locks EXCEPT ![m].readers[t] = @ + 1]
    /\ Advance(t)
    /\ UNCHANGED <<genVars, cmpVars, docVars, convVars, dagVars, resVars, engVars, snapVars, bcVars, concVars, raceVars, storeVars, cmVars, regVars>>

Release(t) ==
    /\ Running(t) /\ NextCall(t)[1] \in {"Unlock", "RUnlock"}
    /\ LET m == NextCall(t)[2]
       IN  locks' = IF NextCall(t)[1] = "Unlock"
                    THEN [locks EXCEPT ![m].writer = 0]
                    ELSE [locks EXCEPT ![m].readers[t] = @ - 1]
    /\ Advance(t)
    /\ UNCHANGED <<genVars, cmpVars, docVars, convVars, dagVars, resVars, engVars, snapVars, bcVars, concVars, raceVars, storeVars, cmVars, regVars>>

NextLocks ==
    \/ \E t \in Threads, method \in Methods : Enter(t, method)
    \/ \E t \in Threads : LockAnnounce(t)
    \/ \E t \in Threads : LockAcquire(t)
    \/ \E t \in Threads : RLockAcquire(t)
    \/ \E t \in Threads : Release(t)

SpecLocks == InitLocks /\ [][NextLocks]_vars

(* --------- concurrent ProcessOperation calls on one document ------------- *)

ConcDocument == "d1"

\* The operation of call c: an insert at a position of its own.
ConcOp(c) ==
    EngOp(<<"o1", "o2", "o3", "o4">>[c], OpInsert, <<PositionSegment(c, AuthorA)>>,
          AuthorA, ConcDocument, "")

\* The document is not in the engine's map, or an earlier getOrLoadDocument
\* has put a new one there.
InitConcurrent ==
    /\ shared \in {NewShared,
                   [NewShared EXCEPT
                       !.objects = MapPut(@, 0, NewDocument),
                       !.documents = MapPut(@, ConcDocument, 0)]}
    /\ procs = [c \in Calls |-> NewProc]
    /\ IdleGen /\ IdleCmp /\ IdleDoc /\ IdleConv /\ IdleDag /\ IdleRes /\ IdleEng
    /\ IdleSnap /\ IdleBc /\ IdleLock /\ IdleRace /\ IdleStore /\ IdleCm /\ IdleReg

\* getOrLoadDocument, first part: the read of ce.documents under RLock (the
\* steps of ProcessOperation before it do not touch the documents).
Lookup(c) ==
    /\ procs[c].pc = "lookup"
    /\ procs' = [procs EXCEPT ![c] =
                    IF ConcDocument \in DOMAIN shared.documents
                    THEN [@ EXCEPT !.pc = "apply",
                                   !.doc = shared.documents[ConcDocument]]
                    ELSE [@ EXCEPT !.pc = "load"]]
    /\ UNCHANGED shared
    /\ UNCHANGED <<genVars, cmpVars, docVars, convVars, dagVars, resVars, engVars, snapVars, bcVars, lockVars, raceVars, storeVars, cmVars, regVars>>

\* getOrLoadDocument, second part: store.GetDocument gives a new object with
\* the stored document, and ErrDocumentNotFound leads to NewDocument.
Load(c) ==
    /\ procs[c].pc = "load"
    /\ shared' = [shared EXCEPT !.objects =
                     MapPut(@, c, IF ConcDocument \in DOMAIN shared.stored
                                  THEN shared.stored[ConcDocument]
                                  ELSE NewDocument)]
    /\ procs' = [procs EXCEPT ![c].pc = "put", ![c].doc = c]
    /\ UNCHANGED <<genVars, cmpVars, docVars, convVars, dagVars, resVars, engVars, snapVars, bcVars, lockVars, raceVars, storeVars, cmVars, regVars>>

\* getOrLoadDocument, third part: ce.documents[documentID] = doc under Lock.
Put(c) ==
    /\ procs[c].pc = "put"
    /\ shared' = [shared EXCEPT !.documents = MapPut(@, ConcDocument, procs[c].doc)]
    /\ procs' = [procs EXCEPT ![c].pc = "apply"]
    /\ UNCHANGED <<genVars, cmpVars, docVars, convVars, dagVars, resVars, engVars, snapVars, bcVars, lockVars, raceVars, storeVars, cmVars, regVars>>

\* doc.ApplyOperation(op), under the document's Lock.
Apply(c) ==
    /\ procs[c].pc = "apply"
    /\ LET outcome == ApplyOperation(shared.objects[procs[c].doc], ConcOp(c))
       IN  IF outcome.err # Nil
           THEN /\ procs' = [procs EXCEPT ![c].pc = "done",
                       ![c].err = "failed to apply operation to document: "
                                      \o outcome.err]
                /\ UNCHANGED shared
           ELSE /\ shared' = [shared EXCEPT !.objects[procs[c].doc] = outcome.doc]
                /\ procs' = [procs EXCEPT ![c].pc = "store"]
    /\ UNCHANGED <<genVars, cmpVars, docVars, convVars, dagVars, resVars, engVars, snapVars, bcVars, lockVars, raceVars, storeVars, cmVars, regVars>>

\* store.StoreDocument(doc), then IndexDocument and BroadcastOperation, and
\* the call returns nil.
Store(c) ==
    /\ procs[c].pc = "store"
    /\ shared' = [shared EXCEPT !.stored =
                     MapPut(@, ConcDocument, shared.objects[procs[c].doc])]
    /\ procs' = [procs EXCEPT ![c].pc = "done"]
    /\ UNCHANGED <<genVars, cmpVars, docVars, convVars, dagVars, resVars, engVars, snapVars, bcVars, lockVars, raceVars, storeVars, cmVars, regVars>>

NextConcurrent ==
    \/ \E c \in Calls : Lookup(c)
    \/ \E c \in Calls : Load(c)
    \/ \E c \in Calls : Put(c)
    \/ \E c \in Calls : Apply(c)
    \/ \E c \in Calls : Store(c)

SpecConcurrent == InitConcurrent /\ [][NextConcurrent]_vars

(* ---- concurrent ProcessOperation calls on a loaded document, by access -- *)

InitRace ==
    /\ live = NewLive
    /\ workers = [c \in Calls |-> NewWorker]
    /\ IdleGen /\ IdleCmp /\ IdleDoc /\ IdleConv /\ IdleDag /\ IdleRes /\ IdleEng
    /\ IdleSnap /\ IdleBc /\ IdleLock /\ IdleConc /\ IdleStore /\ IdleCm /\ IdleReg

\* The document between the first and the last write of applyInsert or
\* applyDelete: Constructs, PositionIndex and PositionIdx are written,
\* LastOperation, Version and ContentHash are not yet.
Partway(before, after) ==
    [after EXCEPT !.LastOperation = before.LastOperation,
                  !.Version = before.Version,
                  !.ContentHash = before.ContentHash]

\* Another call holds the document's mutex: it is inside ApplyOperation.
MutatedByOther(c) == live.docMutex \notin {0, c}

\* doc.ApplyOperation(op): doc.mutex.Lock(), the occupancy test and the
\* writes of the construct map and the position sequence.
ApplyBegin(c) ==
    /\ workers[c].pc = "apply"
    /\ live.docMutex = 0
    /\ LET outcome == ApplyOperation(live.doc, ConcOp(c))
       IN  IF outcome.err # Nil
           THEN /\ workers' = [workers EXCEPT ![c].pc = "done",
                       ![c].err = "failed to apply operation to document: "
                                      \o outcome.err]
                /\ UNCHANGED live
           ELSE /\ live' = [live EXCEPT !.docMutex = c,
                                        !.doc = Partway(live.doc, outcome.doc)]
                /\ workers' = [workers EXCEPT ![c].pc = "applying",
                                              ![c].after = outcome.doc]
    /\ UNCHANGED <<genVars, cmpVars, docVars, convVars, dagVars, resVars, engVars, snapVars, bcVars, lockVars, concVars, storeVars, cmVars, regVars>>

\* The rest of ApplyOperation: LastOperation, Version++, updateContentHash
\* and the deferred doc.mutex.Unlock().
ApplyEnd(c) ==
    /\ workers[c].pc = "applying"
    /\ live' = [live EXCEPT !.doc = workers[c].after, !.docMutex = 0]
    /\ workers' = [workers EXCEPT ![c].pc = "store-args"]
    /\ UNCHANGED <<genVars, cmpVars, docVars, convVars, dagVars, resVars, engVars, snapVars, bcVars, lockVars, concVars, storeVars, cmVars, regVars>>

\* StoreDocument: tx.Begin() and the evaluation of the arguments of
\* tx.Exec(docQuery, ...), which reads doc.Version, doc.ContentHash and
\* doc.LastOperation without the document's mutex.
StoreEvalArgs(c) ==
    /\ workers[c].pc = "store-args"
    /\ workers' = [workers EXCEPT
                      ![c].pc = "store-exec",
                      ![c].args = [NoRows EXCEPT
                                      !.Version = live.doc.Version,
                                      !.ContentHash = live.doc.ContentHash,
                                      !.LastOperation = live.doc.LastOperation],
                      ![c].unguarded = @ \/ MutatedByOther(c)]
    /\ UNCHANGED live
    /\ UNCHANGED <<genVars, cmpVars, docVars, convVars, dagVars, resVars, engVars, snapVars, bcVars, lockVars, concVars, storeVars, cmVars, regVars>>

\* StoreDocument: INSERT OR REPLACE INTO documents runs with those arguments
\* once the database's write lock is free, and DELETE FROM constructs
\* follows in the same transaction.
StoreExec(c) ==
    /\ workers[c].pc = "store-exec"
    /\ live.dbWriter = 0
    /\ live' = [live EXCEPT !.dbWriter = c, !.tx = workers[c].args]
    /\ workers' = [workers EXCEPT ![c].pc = "store-constructs"]
    /\ UNCHANGED <<genVars, cmpVars, docVars, convVars, dagVars, resVars, engVars, snapVars, bcVars, lockVars, concVars, storeVars, cmVars, regVars>>

\* StoreDocument: the loop over doc.Constructs, read without the document's
\* mutex, inserting one row for each construct.
StoreConstructs(c) ==
    /\ workers[c].pc = "store-constructs"
    /\ live' = [live EXCEPT !.tx.Constructs = live.doc.Constructs]
    /\ workers' = [workers EXCEPT ![c].pc = "store-commit",
                                  ![c].unguarded = @ \/ MutatedByOther(c)]
    /\ UNCHANGED <<genVars, cmpVars, docVars, convVars, dagVars, resVars, engVars, snapVars, bcVars, lockVars, concVars, storeVars, cmVars, regVars>>

\* StoreDocument: tx.Commit().
StoreCommit(c) ==
    /\ workers[c].pc = "store-commit"
    /\ live' = [live EXCEPT !.stored = live.tx, !.tx = NoRows, !.dbWriter = 0]
    /\ workers' = [workers EXCEPT ![c].pc = "index"]
    /\ UNCHANGED <<genVars, cmpVars, docVars, convVars, dagVars, resVars, engVars, snapVars, bcVars, lockVars, concVars, storeVars, cmVars, regVars>>

\* addressResolver.IndexDocument(doc): under the resolver's mutex alone, the
\* loop over doc.Constructs copies every entry into constructIndex.  The
\* broadcast that follows does not touch the document, and the call returns.
ReindexDocument(c) ==
    /\ workers[c].pc = "index"
    /\ live' = [live EXCEPT !.constructIndex =
                   [k \in DOMAIN @ \cup DOMAIN live.doc.Constructs |->
                       IF k \in DOMAIN live.doc.Constructs
                       THEN live.doc.Constructs[k] ELSE @[k]]]
    /\ workers' = [workers EXCEPT ![c].pc = "done",
                                  ![c].unguarded = @ \/ MutatedByOther(c)]
    /\ UNCHANGED <<genVars, cmpVars, docVars, convVars, dagVars, resVars, engVars, snapVars, bcVars, lockVars, concVars, storeVars, cmVars, regVars>>

NextRace ==
    \/ \E c \in Calls : ApplyBegin(c)
    \/ \E c \in Calls : ApplyEnd(c)
    \/ \E c \in Calls : StoreEvalArgs(c)
    \/ \E c \in Calls : StoreExec(c)
    \/ \E c \in Calls : StoreConstructs(c)
    \/ \E c \in Calls : StoreCommit(c)
    \/ \E c \in Calls : ReindexDocument(c)

SpecRace == InitRace /\ [][NextRace]_vars

(* ------------------- storing a document and loading it back ------------ *)

\* Positions whose first values have one and two decimal digits, and one
\* with two segments.
Pos2Then1 == <<PositionSegment(2, AuthorA), PositionSegment(1, AuthorB)>>
Pos10 == <<PositionSegment(10, AuthorA)>>
StorePositions == {Pos2, Pos2Then1, Pos10}

\* The operations applied to the document before it is stored: inserts with
\* contents of their own, one of them under the identifier of another, and
\* deletes.
StoreOperations ==
    {[ID |-> "o1", Type |-> OpInsert, Position |-> Pos2, Content |-> "x"],
     [ID |-> "o2", Type |-> OpInsert, Position |-> Pos10, Content |-> "y"],
     [ID |-> "o3", Type |-> OpInsert, Position |-> Pos2Then1, Content |-> "z"],
     [ID |-> "o1", Type |-> OpInsert, Position |-> Pos10, Content |-> "w"]}
    \cup
    {[ID |-> "o4", Type |-> OpDelete, Position |-> pos, Content |-> ""] :
        pos \in StorePositions}

InitStore ==
    /\ memory = NewDocument
    /\ tables = NewTables
    /\ retrieved = NotRetrieved
    /\ IdleGen /\ IdleCmp /\ IdleDoc /\ IdleConv /\ IdleDag /\ IdleRes /\ IdleEng
    /\ IdleSnap /\ IdleBc /\ IdleLock /\ IdleConc /\ IdleRace /\ IdleCm /\ IdleReg

\* doc.ApplyOperation(op) on the document in memory.
StoreApplyOperation(op) ==
    /\ memory.Version < MaxVersion
    /\ memory' = ApplyOperation(memory, op).doc
    /\ UNCHANGED <<tables, retrieved>>
    /\ UNCHANGED <<genVars, cmpVars, docVars, convVars, dagVars, resVars, engVars, snapVars, bcVars, lockVars, concVars, raceVars, cmVars, regVars>>

\* store.StoreDocument(doc).
DoStoreDocument ==
    /\ LET res == StoreDocument(tables, memory)
       IN  /\ tables' = res.tables
           /\ retrieved' = [call |-> "StoreDocument", doc |-> NewDocument,
                            err |-> res.err,
                            of |-> IF res.err = Nil THEN memory ELSE retrieved.of]
    /\ UNCHANGED memory
    /\ UNCHANGED <<genVars, cmpVars, docVars, convVars, dagVars, resVars, engVars, snapVars, bcVars, lockVars, concVars, raceVars, cmVars, regVars>>

\* store.GetDocument(path).
DoGetDocument ==
    /\ LET res == GetDocument(tables)
       IN  retrieved' = [call |-> "GetDocument", doc |-> res.doc, err |-> res.err,
                         of |-> retrieved.of]
    /\ UNCHANGED <<memory, tables>>
    /\ UNCHANGED <<genVars, cmpVars, docVars, convVars, dagVars, resVars, engVars, snapVars, bcVars, lockVars, concVars, raceVars, cmVars, regVars>>

NextStore ==
    \/ \E op \in StoreOperations : StoreApplyOperation(op)
    \/ DoStoreDocument
    \/ DoGetDocument

SpecStore == InitStore /\ [][NextStore]_vars

(* ---------------- the conversation manager as a state machine ---------- *)

\* The addresses conversations are anchored at: two with different keys, and
\* one that differs from the first in its repository alone.
CmAddresses ==
    {NewStableAddress(Repository, "o1", PositionRange(Pos1, Pos1)),
     NewStableAddress(Repository, "o1", PositionRange(Pos2, Pos2)),
     NewStableAddress("repo-moved", "o1", PositionRange(Pos1, Pos1))}

InitManager ==
    /\ manager = NewConversationManager
    /\ cmCall = NoCmCall
    /\ IdleGen /\ IdleCmp /\ IdleDoc /\ IdleConv /\ IdleDag /\ IdleRes /\ IdleEng
    /\ IdleSnap /\ IdleBc /\ IdleLock /\ IdleConc /\ IdleRace /\ IdleStore /\ IdleReg

\* The identifier of a new thread is the time of its creation, taken here
\* as later than that of every thread before it.
DoCreateConversation(anchorAddr) ==
    /\ Cardinality(DOMAIN manager.conversations) < MaxThreads
    /\ LET threadID == Cardinality(DOMAIN manager.conversations) + 1
       IN  /\ manager' = CreateConversation(manager, anchorAddr, threadID)
           /\ cmCall' = CmCall("CreateConversation", anchorAddr, NoAddress,
                               <<manager'.conversations[threadID]>>)
    /\ UNCHANGED <<genVars, cmpVars, docVars, convVars, dagVars, resVars, engVars, snapVars, bcVars, lockVars, concVars, raceVars, storeVars, regVars>>

DoGetConversationsByAddress(addr) ==
    /\ cmCall' = CmCall("GetConversationsByAddress", addr, NoAddress,
                        GetConversationsByAddress(manager, addr))
    /\ UNCHANGED manager
    /\ UNCHANGED <<genVars, cmpVars, docVars, convVars, dagVars, resVars, engVars, snapVars, bcVars, lockVars, concVars, raceVars, storeVars, regVars>>

DoMoveConversations(oldAddr, newAddr) ==
    /\ manager' = MoveConversations(manager, oldAddr, newAddr)
    /\ cmCall' = CmCall("UpdateAddressLocation", oldAddr, newAddr, <<>>)
    /\ UNCHANGED <<genVars, cmpVars, docVars, convVars, dagVars, resVars, engVars, snapVars, bcVars, lockVars, concVars, raceVars, storeVars, regVars>>

NextManager ==
    \/ \E addr \in CmAddresses : DoCreateConversation(addr)
    \/ \E addr \in CmAddresses : DoGetConversationsByAddress(addr)
    \/ \E oldAddr, newAddr \in CmAddresses : DoMoveConversations(oldAddr, newAddr)

SpecManager == InitManager /\ [][NextManager]_vars

(* ------------------------ claims: position algebra --------------------- *)

\* C1: for valid left < right and every author, the generated position lies
\* strictly between them: left < GeneratePosition(left, right, a) < right.
C1_StrictlyBetween ==
    \A g \in generated :
        (IsValid(left) /\ IsValid(right) /\ Compare(left, right) < 0)
            => (Compare(left, g.pos) < 0 /\ Compare(g.pos, right) < 0)

\* C2: with only one bound supplied the result respects it: greater than a
\* valid left when right is absent, less than a valid right when left is absent.
C2_OneBoundRespected ==
    \A g \in generated :
        /\ (IsValid(left) /\ ~IsValid(right)) => Compare(left, g.pos) < 0
        /\ (~IsValid(left) /\ IsValid(right)) => Compare(g.pos, right) < 0

\* C3: for fixed bounds (each possibly absent), two different authors get
\* distinct positions, and the same author gets the same position again.
C3_AuthorsGetDistinctPositions ==
    \A g1, g2 \in generated :
        /\ g1.author # g2.author => Compare(g1.pos, g2.pos) # 0
        /\ g1.author = g2.author => Compare(g1.pos, g2.pos) = 0

\* Two authors have generated between two valid bounds left < right, one level
\* deeper than the common prefix.
C3_Witness ==
    /\ IsValid(left) /\ IsValid(right) /\ Compare(left, right) < 0
    /\ \E g1, g2 \in generated : g1.author # g2.author /\ Len(g1.pos) > 1

\* C4: Compare is a total order on valid positions: exactly one of p<q, p=q,
\* q<p; Compare(p,q) = -Compare(q,p); Compare(p,q) = 0 iff the segment
\* sequences are equal; p<q and q<r imply p<r.
C4_CompareTotalOrder ==
    \A c \in compared :
        /\ c.pq \in {-1, 0, 1}
        /\ Cardinality({b \in {"lt", "eq", "gt"} :
                \/ b = "lt" /\ c.pq < 0
                \/ b = "eq" /\ p = q
                \/ b = "gt" /\ c.qp < 0}) = 1
        /\ c.pq = -c.qp
        /\ (c.pq = 0) <=> (p = q)
        /\ (c.pq < 0 /\ c.qr < 0) => c.pr < 0

\* A chain p < q < r was compared in which p is a strict prefix of q and q, r
\* differ only in the author of a segment.
C4_Witness ==
    \E c \in compared :
        /\ c.pq < 0 /\ c.qr < 0
        /\ Len(p) < Len(q) /\ SubSeq(q, 1, Len(p)) = p
        /\ Len(q) = Len(r) /\ \A i \in 1..Len(q) : q[i].value = r[i].value

\* C5: two valid positions have the same key iff their segment sequences are
\* equal.
C5_KeysCollideOnlyWhenEqual ==
    \A c \in compared : (c.keyP = c.keyQ) <=> (p = q)

(* ---------------------------- claims: documents ------------------------ *)

\* C6: replaying one set of insert and delete operations on two empty
\* documents, each in an order consistent with the parent edges, ends in the
\* same document: same constructs, same rendering, same content hash.
C6_ReplayOrdersConverge ==
    (\A rep \in Replicas : applied[rep] = IDsOf(opSet))
        => /\ replicas[1].Constructs = replicas[2].Constructs
           /\ Render(replicas[1]) = Render(replicas[2])
           /\ replicas[1].ContentHash = replicas[2].ContentHash

\* C7: PositionIdx is strictly increasing under Compare and holds exactly the
\* positions of the constructs in the construct map, each under its own key.
C7_IndexSortedAndExact ==
    /\ \A i \in 1..(Len(doc.PositionIdx) - 1) :
           Compare(doc.PositionIdx[i], doc.PositionIdx[i + 1]) < 0
    /\ {doc.PositionIdx[i] : i \in 1..Len(doc.PositionIdx)}
           = {doc.Constructs[k].Position : k \in DOMAIN doc.Constructs}
    /\ \A k \in DOMAIN doc.Constructs : Key(doc.Constructs[k].Position) = k

\* The contents of a set of constructs, concatenated in the order of their
\* positions under Compare.
RECURSIVE ContentsInPositionOrder(_)
ContentsInPositionOrder(constructs) ==
    IF constructs = {} THEN ""
    ELSE LET first == CHOOSE c \in constructs :
                         \A o \in constructs : Compare(c.Position, o.Position) <= 0
         IN  first.Content \o ContentsInPositionOrder(constructs \ {first})

\* C8: in every state, the fresh document included, ContentHash is the
\* SHA-256 of what Render returns, and Render returns the construct contents
\* concatenated in sorted position order.
C8_HashIsHashOfRender ==
    /\ doc.ContentHash = Sum256(Render(doc))
    /\ Render(doc) = ContentsInPositionOrder(
                         {doc.Constructs[k] : k \in DOMAIN doc.Constructs})

\* C9: Version starts at 0 and counts the calls that changed the construct
\* map: such a call adds exactly one, any other call (a rejected insert, a
\* not-found delete, a delete op at an unoccupied position) leaves it as is.
C9_VersionCountsChanges ==
    /\ doc.Version = 0
    /\ [][/\ doc'.Constructs # doc.Constructs => doc'.Version = doc.Version + 1
          /\ doc'.Constructs = doc.Constructs => doc'.Version = doc.Version
          /\ call'.err # Nil => doc'.Version = doc.Version
          /\ doc'.Version >= doc.Version]_vars

\* After two changes an insert op was rejected as position-occupied.
C9_Witness ==
    /\ doc.Version = 2
    /\ call.method = "ApplyOperation" /\ call.type = OpInsert
    /\ call.err = ErrPositionOccupied

\* C10: in every document state, the fresh document included, an insert op at
\* an unoccupied (valid) position followed by a delete op at the same position
\* leaves ContentHash as it was before the insert.
C10_InsertThenDeleteRestoresHash ==
    [][(/\ call.method = "ApplyOperation" /\ call.type = OpInsert /\ call.err = Nil
        /\ IsValid(call.pos)
        /\ call'.method = "ApplyOperation" /\ call'.type = OpDelete
        /\ call'.pos = call.pos)
           => doc'.ContentHash = call.hashBefore]_vars

\* The call just made was an insert: InsertConstruct or an insert operation.
IsInsertCall(c) ==
    \/ c.method = "InsertConstruct"
    \/ c.method = "ApplyOperation" /\ c.type = OpInsert

\* C11: an insert (InsertConstruct or an insert operation) at a position key
\* that already holds a construct fails with ErrPositionOccupied and leaves
\* the document as it was: constructs, position sequence, version, content
\* hash and last operation.
C11_OccupiedInsertRejected ==
    [][(IsInsertCall(call') /\ Key(call'.pos) \in DOMAIN doc.Constructs)
           => (call'.err = ErrPositionOccupied /\ doc' = doc)]_vars

\* C12: a delete operation at a position that holds no construct (no entry of
\* the construct map under the position's key) succeeds and leaves constructs,
\* position sequence, content hash and version as they were; applying one
\* delete operation twice gives the same document as applying it once.
C12_DeleteOfAbsentIsNoOp ==
    /\ \A op \in Operations :
           op.Type = OpDelete =>
               LET once == ApplyOperation(doc, op).doc
               IN  ApplyOperation(once, op).doc = once
    /\ [][(/\ call'.method = "ApplyOperation" /\ call'.type = OpDelete
           /\ Key(call'.pos) \notin DOMAIN doc.Constructs)
              => /\ call'.err = Nil
                 /\ doc'.Constructs = doc.Constructs
                 /\ doc'.PositionIdx = doc.PositionIdx
                 /\ doc'.ContentHash = doc.ContentHash
                 /\ doc'.Version = doc.Version]_vars

\* A delete operation found nothing to delete in a document that holds a
\* construct: no operation has been recorded as the last one.
C12_Witness ==
    /\ call.method = "ApplyOperation" /\ call.type = OpDelete /\ call.err = Nil
    /\ DOMAIN doc.Constructs # {}
    /\ Key(call.pos) \notin DOMAIN doc.Constructs
    /\ doc.LastOperation = NoOperation

(* --------------------------- claims: the DAG --------------------------- *)

\* C13: AddOperation of an operation whose identifier is already stored
\* returns nil and leaves operations, children, roots and heads as they were.
C13_AddIdempotentOnID ==
    [][(/\ dagCall'.method = "AddOperation"
        /\ dagCall'.op # NilOperation
        /\ dagCall'.op.ID \in DOMAIN dag.operations)
           => (dagCall'.err = Nil /\ dag' = dag)]_vars

\* An operation was added under an identifier that the DAG holds with
\* another parent list, after a child of it had been stored.
C13_Witness ==
    /\ dagCall.method = "AddOperation" /\ dagCall.op # NilOperation
    /\ dagCall.op.ID \in DOMAIN dag.operations
    /\ dag.operations[dagCall.op.ID].Parents # dagCall.op.Parents
    /\ ChildrenOf(dag, dagCall.op.ID) # <<>>

\* The stored operations that some stored operation names as a parent.
NamedAsParent(d) ==
    {id \in DOMAIN d.operations :
        \E o \in DOMAIN d.operations :
            \E i \in 1..Len(d.operations[o].Parents) : d.operations[o].Parents[i] = id}

\* C14: after every AddOperation, in any arrival order, heads holds exactly
\* the stored operations that no stored operation names as a parent, each
\* once.
C14_HeadsAreTheChildless ==
    /\ {dag.heads[i] : i \in 1..Len(dag.heads)}
           = DOMAIN dag.operations \ NamedAsParent(dag)
    /\ \A i, j \in 1..Len(dag.heads) : dag.heads[i] = dag.heads[j] => i = j

\* The parents of a stored operation that are stored themselves.
StoredParents(d, id) ==
    {d.operations[id].Parents[i] : i \in 1..Len(d.operations[id].Parents)}
        \cap DOMAIN d.operations

\* The operations of ids and all they reach through parent edges.
RECURSIVE AncestorsOrSelf(_, _)
AncestorsOrSelf(d, ids) ==
    LET next == ids \cup UNION {StoredParents(d, id) : id \in ids}
    IN  IF next = ids THEN ids ELSE AncestorsOrSelf(d, next)

\* C15: GetCausalHistory(id) of a stored operation returns id and every
\* ancestor it reaches through parent edges, each exactly once, every
\* operation after all of its parents; diamonds included.
C15_CausalHistoryParentsFirst ==
    (dagCall.method = "GetCausalHistory" /\ dagCall.id \in DOMAIN dag.operations)
        => LET h == dagCall.history
           IN  /\ dagCall.err = Nil
               /\ {h[i] : i \in 1..Len(h)} = AncestorsOrSelf(dag, {dagCall.id})
               /\ \A i, j \in 1..Len(h) : h[i] = h[j] => i = j
               /\ \A i \in 1..Len(h) :
                      \A parent \in StoredParents(dag, h[i]) :
                          \E j \in 1..(i - 1) : h[j] = parent

\* The history of o4 was asked for in a diamond: o4 over o2 and o3, both
\* over o1.
C15_Witness ==
    /\ dagCall.method = "GetCausalHistory" /\ dagCall.id = "o4"
    /\ DOMAIN dag.operations = DagIDs
    /\ dag.operations["o4"].Parents = <<"o2", "o3">>
    /\ dag.operations["o2"].Parents = <<"o1">>
    /\ Len(dagCall.history) = 4

\* C16: AddOperation rejects a nil operation, an operation with an empty
\* author and an operation whose kind is not insert, delete or move: it
\* returns an error and leaves operations, children, roots and heads as they
\* were.
C16_AddRejectsInvalid ==
    [][(dagCall'.method = "AddOperation" /\ ValidateOperation(dagCall'.op) # Nil)
           => (dagCall'.err \notin {Nil, Panic} /\ dag' = dag)]_vars

(* ------------------------ claims: the address resolver ----------------- *)

\* C17: after CreateAddress(repo, op, range) has succeeded for an indexed
\* operation, ResolveAddress of the address it returned yields a record whose
\* current range is range, which is valid, whose creation operation is op and
\* whose movement log is empty.
C17_CreateThenResolve ==
    [][(/\ resCall.method = "CreateAddress" /\ resCall.err = Nil
        /\ resCall'.method = "ResolveAddress" /\ resCall'.addr = resCall.value)
           => /\ resCall'.err = Nil
              /\ resCall'.value.CurrentRange = resCall.addr.PositionRange
              /\ resCall'.value.IsValid
              /\ resCall'.value.CreationOp.ID = resCall.addr.OperationID
              /\ resCall'.value.CreationOp
                     = resolver.operationIndex[resCall.addr.OperationID]
              /\ resCall'.value.MovementHistory = <<>>]_vars

\* An address made over a range in which no construct is indexed was resolved
\* as it was created.
C17_Witness ==
    /\ resCall.method = "ResolveAddress" /\ resCall.err = Nil
    /\ resCall.value.IsValid
    /\ resCall.value.MovementHistory = <<>>
    /\ resCall.value.Constructs = {}
    /\ resCall.value.CurrentRange = resCall.addr.PositionRange

\* C18: ProcessOperation(op) leaves every address whose current range does
\* not contain op.Position as it was: current range, valid flag, constructs
\* and movement log.
C18_UnaffectedAddressesUnchanged ==
    [][resCall'.method = "ProcessOperation" =>
          \A k \in DOMAIN resolver.addressIndex :
              ~Contains(resolver.addressIndex[k].CurrentRange, resCall'.op.Position)
                  => /\ k \in DOMAIN resolver'.addressIndex
                     /\ resolver'.addressIndex[k] = resolver.addressIndex[k]]_vars

\* An operation was processed that changed one address and passed by another
\* whose constructs are no longer what its range holds in the construct index.
C18_Witness ==
    /\ resCall.method = "ProcessOperation"
    /\ \E k1, k2 \in DOMAIN resolver.addressIndex :
           /\ resolver.addressIndex[k1].MovementHistory # <<>>
           /\ resolver.addressIndex[k2].MovementHistory = <<>>
           /\ resolver.addressIndex[k2].Constructs
                  # getConstructsInRange(resolver, resolver.addressIndex[k2].CurrentRange)

\* C20: after ProcessOperation of a delete operation whose position lies in
\* an address's current range the address is invalid and the last record of
\* its movement log has reason delete and a to-range that IsEmpty; and no
\* ProcessOperation makes an invalid address valid again.
C20_DeleteInvalidatesForGood ==
    [][resCall'.method = "ProcessOperation" =>
          \A k \in DOMAIN resolver.addressIndex :
              LET before == resolver.addressIndex[k]
                  after == resolver'.addressIndex[k]
                  last == after.MovementHistory[Len(after.MovementHistory)]
              IN  /\ (resCall'.op.Type = OpDelete
                        /\ Contains(before.CurrentRange, resCall'.op.Position))
                         => /\ ~after.IsValid
                            /\ last.Reason = MovementDelete
                            /\ IsEmpty(last.ToRange)
                  /\ ~before.IsValid => ~after.IsValid]_vars

\* How many records of a movement log were caused by the operation.
CountCausedBy(history, id) ==
    Cardinality({i \in 1..Len(history) : history[i].CausedBy = id})

\* C19: for operations submitted through the engine, one of them more than
\* once included, the movement log of each address holds exactly one record
\* caused by each operation whose position lay in the address's current range
\* when it was processed, and no record for any other operation.
C19_OneRecordPerOperation ==
    [][engCall'.method = "ProcessOperation" =>
          \A k \in DOMAIN engine.addressResolver.addressIndex :
              LET before == engine.addressResolver.addressIndex[k]
                  after == engine'.addressResolver.addressIndex[k]
                  inRange == /\ "resolver" \in {engCall'.steps[i] :
                                                  i \in 1..Len(engCall'.steps)}
                             /\ Contains(before.CurrentRange, engCall'.op.Position)
              IN  /\ inRange =>
                         CountCausedBy(after.MovementHistory, engCall'.op.ID) = 1
                  /\ ~inRange => after.MovementHistory = before.MovementHistory
                  /\ \A id \in DOMAIN engine'.addressResolver.operationIndex :
                         id # engCall'.op.ID =>
                             CountCausedBy(after.MovementHistory, id)
                                 = CountCausedBy(before.MovementHistory, id)]_vars

\* C21: UpdateAddressLocation(addr, newRange, op, reason) on a known address
\* appends exactly one movement record (from the previous current range to
\* newRange, caused by op, with the reason), makes newRange the current range,
\* and leaves the address valid exactly when newRange is not empty and some
\* indexed construct lies in it.
C21_UpdateMovesAndRevalidates ==
    [][(/\ resCall'.method = "UpdateAddressLocation"
        /\ AddressKey(resCall'.addr) \in DOMAIN resolver.addressIndex)
           => LET k == AddressKey(resCall'.addr)
                  before == resolver.addressIndex[k]
                  after == resolver'.addressIndex[k]
              IN  /\ resCall'.err = Nil
                  /\ after.MovementHistory
                         = Append(before.MovementHistory,
                                  MovementRecord(before.CurrentRange,
                                                 resCall'.newRange,
                                                 resCall'.causedBy,
                                                 resCall'.reason))
                  /\ after.CurrentRange = resCall'.newRange
                  /\ after.IsValid
                         <=> /\ ~IsEmpty(resCall'.newRange)
                             /\ \E c \in DOMAIN resolver.constructIndex :
                                    Contains(resCall'.newRange,
                                             resolver.constructIndex[c].Position)]_vars

\* An address that was made over a range with no indexed construct, and was
\* valid from its creation, has been moved once to another range with no
\* indexed construct, which is not empty, and is now invalid.
C21_Witness ==
    /\ resCall.method = "UpdateAddressLocation" /\ resCall.err = Nil
    /\ LET resolved == resolver.addressIndex[AddressKey(resCall.addr)]
       IN  /\ Len(resolved.MovementHistory) = 1
           /\ resolved.MovementHistory[1].FromRange = resCall.addr.PositionRange
           /\ resolved.MovementHistory[1].ToRange # resCall.addr.PositionRange
           /\ getConstructsInRange(resolver, resCall.addr.PositionRange) = {}
           /\ ~IsEmpty(resolved.CurrentRange)
           /\ resolved.Constructs = {}
           /\ ~resolved.IsValid

\* C22: ResolveAddress, GetAddressHistory, UpdateAddressLocation and
\* InvalidateAddress, called with an address whose key is not in the address
\* index, return the not-found error and leave the operation, construct,
\* address and forwarding indexes as they were.
C22_UnknownAddressNotFound ==
    [][(/\ resCall'.method \in {"ResolveAddress", "GetAddressHistory",
                                "UpdateAddressLocation", "InvalidateAddress"}
        /\ AddressKey(resCall'.addr) \notin DOMAIN resolver.addressIndex)
           => /\ resCall'.err = ErrAddressNotFound
              /\ resolver'.operationIndex = resolver.operationIndex
              /\ resolver'.constructIndex = resolver.constructIndex
              /\ resolver'.addressIndex = resolver.addressIndex
              /\ resolver'.forwardingTable = resolver.forwardingTable]_vars

\* InvalidateAddress was refused for an address the resolver does not know,
\* while the resolver knows another address and has constructs indexed.
C22_Witness ==
    /\ resCall.method = "InvalidateAddress"
    /\ resCall.err = ErrAddressNotFound
    /\ AddressKey(resCall.addr) \notin DOMAIN resolver.addressIndex
    /\ DOMAIN resolver.addressIndex # {}
    /\ DOMAIN resolver.constructIndex # {}

\* C23: the record returned by ResolveAddress is a snapshot independent of
\* the resolver's state: when the caller modifies an element of its movement
\* log or of its construct list, what ResolveAddress and GetAddressHistory
\* return for the address stays the same, and a resolver update leaves a
\* record already handed out as it was.
C23_ResolvedRecordIsIndependent ==
    [][/\ resCall'.method \in {"ModifyHistoryElement", "ModifyConstructElement"}
           => /\ ResolveAddress(resolver', SnapAddress).value
                     = ResolveAddress(resolver, SnapAddress).value
              /\ GetAddressHistory(resolver', SnapAddress).value
                     = GetAddressHistory(resolver, SnapAddress).value
       /\ (/\ snapshot.taken
           /\ resCall'.method \in {"IndexOperation", "IndexDocument",
                                   "CreateAddress", "UpdateAddressLocation",
                                   "InvalidateAddress", "ProcessOperation"})
           => snapshot'.value = snapshot.value]_vars

\* The steps of a ProcessOperation run as a set.
StepsDone(c) == {c.steps[i] : i \in 1..Len(c.steps)}

\* The document a ProcessOperation run finds under an id: the one in memory,
\* else the stored one, else an empty one.
DocumentBefore(e, documentID) ==
    IF documentID \in DOMAIN e.documents THEN e.documents[documentID]
    ELSE IF documentID \in DOMAIN e.store.documents
         THEN e.store.documents[documentID]
         ELSE NewDocument

\* C24: in every engine ProcessOperation run, the operation is broadcast only
\* after it is in the DAG, it has been persisted, it has been applied to the
\* target document and the updated document has been persisted; when one of
\* these steps did not complete, the call returns an error and nothing is
\* broadcast.
C24_BroadcastComesLast ==
    [][engCall'.method = "ProcessOperation" =>
          LET op == engCall'.op
              sent == engine'.broadcasts # engine.broadcasts
              last == engine'.broadcasts[Len(engine'.broadcasts)]
              required == {"dag", "store-operation", "apply", "store-document"}
          IN  /\ sent =>
                    /\ engine'.broadcasts
                           = Append(engine.broadcasts,
                                    [op |-> op.ID, documentID |-> last.documentID,
                                     excludeClient |-> Client])
                    /\ required \subseteq StepsDone(engCall')
                    /\ engCall'.steps[Len(engCall'.steps)] = "broadcast"
                    /\ op.ID \in DOMAIN engine'.operationDAG.operations
                    /\ op.ID \in DOMAIN engine'.store.operations
                    /\ engine'.store.operations[op.ID] = op
                    /\ last.documentID \in DOMAIN engine'.documents
                    /\ last.documentID \in DOMAIN engine'.store.documents
                    /\ engine'.documents[last.documentID]
                           = ApplyOperation(DocumentBefore(engine, last.documentID),
                                            op).doc
                    /\ engine'.store.documents[last.documentID]
                           = engine'.documents[last.documentID]
              /\ ~(required \subseteq StepsDone(engCall'))
                     => engCall'.err # Nil /\ ~sent
              /\ engCall'.err # Nil => ~sent
              /\ engCall'.err = Nil => sent]_vars

\* An operation was broadcast by an earlier run, and the last run applied its
\* operation, failed to store the document, returned the error and broadcast
\* nothing.
C24_Witness ==
    /\ engCall.method = "ProcessOperation"
    /\ engCall.steps = <<"dag", "store-operation", "resolver", "apply">>
    /\ engCall.err # Nil
    /\ Len(engine.broadcasts) = 1
    /\ engine.broadcasts[1].op # engCall.op.ID
    /\ engCall.op.ID \in DOMAIN engine.operationDAG.operations

\* C25: when persisting the operation fails in engine ProcessOperation, the
\* caller gets the error, the operation is in the DAG, and the resolver, the
\* documents and the store are as before; the same operation submitted again
\* with storage working runs every step that the first call would have run
\* and leaves the engine, its documents included, as the first call would
\* have left it had it succeeded.
C25_StoreFailureThenRetry ==
    [][(/\ engCall'.method = "ProcessOperation"
        /\ engCall'.err = "failed to store operation: " \o ErrStorage)
           => LET op == engCall'.op
                  first == EngineProcessOperation(engine, op, Client, "none")
                  retry == EngineProcessOperation(engine', op, Client, "none")
              IN  /\ op.ID \in DOMAIN engine'.operationDAG.operations
                  /\ engine'.addressResolver = engine.addressResolver
                  /\ engine'.documents = engine.documents
                  /\ engine'.store = engine.store
                  /\ engine'.broadcasts = engine.broadcasts
                  /\ retry.err = first.err
                  /\ retry.steps = first.steps
                  /\ retry.engine.documents = first.engine.documents
                  /\ retry.engine = first.engine]_vars

\* Storing an operation failed in an engine that holds a document; the
\* operation is in the DAG and not in the store, and submitted again it
\* would be applied and broadcast.
C25_Witness ==
    /\ engCall.method = "ProcessOperation"
    /\ engCall.err = "failed to store operation: " \o ErrStorage
    /\ engCall.op.ID \in DOMAIN engine.operationDAG.operations
    /\ engCall.op.ID \notin DOMAIN engine.store.operations
    /\ DOMAIN engine.documents # {}
    /\ LET retry == EngineProcessOperation(engine, engCall.op, Client, "none")
       IN  /\ retry.err = Nil
           /\ retry.engine.documents # engine.documents

\* C26: engine ProcessOperation returns an error for every operation whose
\* metadata context has no document_id, whatever its session identifier, and
\* applies it to no document: the documents in memory and in the store stay
\* as they were and nothing is broadcast.
C26_NoDocumentIDRejected ==
    [][(engCall'.method = "ProcessOperation" /\ engCall'.op.DocumentID = "")
           => /\ engCall'.err # Nil
              /\ "apply" \notin StepsDone(engCall')
              /\ engine'.documents = engine.documents
              /\ engine'.store.documents = engine.store.documents
              /\ engine'.broadcasts = engine.broadcasts]_vars

\* C27: the same insert operation submitted twice through engine
\* ProcessOperation: the first call succeeds and raises the document version
\* by one; the second returns the position-occupied error and changes
\* nothing: the DAG holds the one entry for the identifier, the document's
\* version and content hash are as before, and no write is issued to the
\* operation store or to the document store.
C27_SecondInsertChangesNothing ==
    [][/\ (/\ engCall'.method = "ProcessOperation"
           /\ engCall'.op.Type = OpInsert
           /\ engCall'.err = Nil)
           => engine'.documents[engCall'.op.DocumentID].Version
                  = DocumentBefore(engine, engCall'.op.DocumentID).Version + 1
       /\ (/\ engCall.method = "ProcessOperation"
           /\ engCall.op.Type = OpInsert
           /\ engCall.err = Nil
           /\ engCall'.method = "ProcessOperation"
           /\ engCall'.op = engCall.op
           /\ engCall'.err # "failed to store operation: " \o ErrStorage)
           => LET documentID == engCall.op.DocumentID
              IN  /\ engCall'.err = "failed to apply operation to document: "
                                        \o ErrPositionOccupied
                  /\ engine'.operationDAG = engine.operationDAG
                  /\ engine'.documents[documentID].Version
                         = engine.documents[documentID].Version
                  /\ engine'.documents[documentID].ContentHash
                         = engine.documents[documentID].ContentHash
                  /\ engine'.store = engine.store
                  /\ "store-operation" \notin StepsDone(engCall')
                  /\ "store-document" \notin StepsDone(engCall')]_vars

\* C28: BroadcastOperation puts the message into the send buffer of every
\* connected client that is subscribed to the document, is not the excluded
\* sender, is not closed and has room in its buffer; it leaves every other
\* client as it was, a full buffer or a closed connection costing only that
\* client the message; and it returns nil, so that ProcessOperation succeeds.
C28_BroadcastReachesTheOthers ==
    [][bcCall'.method = "BroadcastOperation" =>
          /\ bcCall'.err = Nil
          /\ DOMAIN clients' = DOMAIN clients
          /\ \A c \in DOMAIN clients :
                 IF /\ c # bcCall'.client
                    /\ IsSubscribedTo(clients[c], bcCall'.documentID)
                    /\ ~clients[c].closed
                    /\ Len(clients[c].sendChan) < SendBufferSize
                 THEN clients'[c] = [clients[c] EXCEPT
                                        !.sendChan = Append(@, bcCall'.op)]
                 ELSE clients'[c] = clients[c]]_vars

\* A goroutine that can take its next step.
CanStep(t) ==
    \/ threads[t].method = "idle"
    \/ /\ Running(t)
       /\ LET m == NextCall(t)[2]
          IN  CASE NextCall(t)[1] = "Lock" ->
                       \/ t \notin locks[m].pending
                       \/ /\ locks[m].writer = 0
                          /\ \A u \in Threads : locks[m].readers[u] = 0
                [] NextCall(t)[1] = "RLock" ->
                       locks[m].writer = 0 /\ locks[m].pending = {}
                [] OTHER -> TRUE

\* C29: no interleaving of concurrent calls to the engine, the resolver, the
\* documents and the context analyzer reaches a deadlock: while a call is
\* unfinished some goroutine can step; a goroutine that takes a mutex while
\* it holds one takes one of a lower layer, or takes again for reading the
\* one it holds for reading while no writer waits for it.
C29_NoDeadlock ==
    /\ (\E t \in Threads : threads[t].method # "done")
           => \E t \in Threads : CanStep(t)
    /\ \A t \in Threads :
           (Running(t) /\ NextCall(t)[1] \in {"Lock", "RLock"}) =>
               \A m \in Mutexes :
                   Holds(t, m) =>
                       \/ Layer(NextCall(t)[2]) < Layer(m)
                       \/ /\ NextCall(t)[2] = m
                          /\ NextCall(t)[1] = "RLock"
                          /\ locks[m].writer = 0
                          /\ locks[m].pending = {}

\* The analyzer's RLock is held twice by a goroutine inside getConsequences
\* while another goroutine holds the engine's Lock in AddClient and a third
\* waits for the engine's RLock.
C29_Witness ==
    \E t, u, v \in Threads :
        /\ locks["ca"].readers[t] = 2
        /\ locks["ce"].writer = u /\ threads[u].method = "AddClient"
        /\ Running(v) /\ NextCall(v) = <<"RLock", "ce">>

\* C30: when the concurrent ProcessOperation calls, each inserting at its own
\* position into the same document id, have all returned successfully, the
\* engine's document for that id has one version per call and holds the
\* construct of every call.
C30_ConcurrentInsertsAllApplied ==
    (\A c \in Calls : procs[c].pc = "done" /\ procs[c].err = Nil)
        => /\ ConcDocument \in DOMAIN shared.documents
           /\ LET document == shared.objects[shared.documents[ConcDocument]]
              IN  /\ document.Version = NumCalls
                  /\ \A c \in Calls :
                         Key(ConcOp(c).Position) \in DOMAIN document.Constructs

(* ------------------- claims: the document under concurrency ------------ *)

\* C31: during concurrent ProcessOperation calls on one document, no call
\* reads the document's construct map, version or content hash (in
\* StoreDocument or IndexDocument) while another call is in the middle of
\* ApplyOperation's writes.
C31_NoAccessDuringMutation ==
    \A c \in Calls : ~workers[c].unguarded

\* C40: once all the concurrent ProcessOperation calls on a loaded document
\* have returned without error, the stored document has the version and the
\* constructs of the document in memory.
C40_StoredIsTheLatest ==
    (\A c \in Calls : workers[c].pc = "done" /\ workers[c].err = Nil)
        => /\ live.stored.Version = live.doc.Version
           /\ live.stored.Constructs = live.doc.Constructs

(* ------------------- claims: addresses under engine edits -------------- *)

\* C32: after the engine has processed an insert whose position lies inside
\* the current range of an existing address, resolving that address gives the
\* same range, a last movement record with reason edit, and a construct set
\* that includes the construct the insert created.
C32_InsertInsideRangeIsIncluded ==
    [][(/\ engCall'.method = "ProcessOperation"
        /\ engCall'.err = Nil
        /\ engCall'.op.Type = OpInsert) =>
          LET op == engCall'.op
              index == engine.addressResolver.addressIndex
          IN  \A k \in DOMAIN index :
                  Contains(index[k].CurrentRange, op.Position) =>
                      LET resolved == ResolveAddress(engine'.addressResolver,
                                                     index[k].Address)
                          history == resolved.value.MovementHistory
                      IN  /\ resolved.err = Nil
                          /\ resolved.value.CurrentRange = index[k].CurrentRange
                          /\ history # <<>>
                          /\ history[Len(history)].Reason = MovementEdit
                          /\ history[Len(history)].CausedBy = op.ID
                          /\ \E c \in resolved.value.Constructs :
                                 /\ c.Position = op.Position
                                 /\ c.CreatedBy = op.ID]_vars

(* ------------------- claims: invalid positions in operations ----------- *)

\* C33: an insert operation whose position is invalid (no segments, or a
\* segment with an empty author) fails with ErrInvalidPosition, as
\* InsertConstruct does, and leaves the document unchanged.
C33_InvalidInsertOperationRejected ==
    [][(/\ call'.method = "ApplyOperation"
        /\ call'.type = OpInsert
        /\ ~IsValid(call'.pos))
           => (call'.err = ErrInvalidPosition /\ doc' = doc)]_vars

(* ------------------- claims: the persisted document -------------------- *)

\* The positions of a sequence are strictly ascending by Compare.
StrictlySorted(idx) ==
    \A i \in 1..(Len(idx) - 1) : Compare(idx[i], idx[i + 1]) < 0

\* C34: a document that was stored and is loaded back has the version and
\* the constructs of the stored one and a position sequence strictly sorted
\* by Compare; its rendering equals that of the stored one (also when first
\* segment values differ in their number of digits, as 2 and 10), and its
\* content hash is the hash of its rendering.
C34_StoreThenLoadRoundTrip ==
    (retrieved.call = "GetDocument" /\ retrieved.err = Nil) =>
        /\ retrieved.doc.Version = retrieved.of.Version
        /\ retrieved.doc.Constructs = retrieved.of.Constructs
        /\ StrictlySorted(retrieved.doc.PositionIdx)
        /\ Render(retrieved.doc) = Render(retrieved.of)
        /\ retrieved.doc.ContentHash = Sum256(Render(retrieved.doc))

(* ------------------- claims: conversations and addresses --------------- *)

\* The identifiers of the threads the address index holds under a key.
IndexedUnder(cm, key) ==
    IF key \in DOMAIN cm.addressIndex
    THEN {cm.addressIndex[key][i] : i \in 1..Len(cm.addressIndex[key])}
    ELSE {}

\* C35: after ConversationManager.UpdateAddressLocation(old, new), every
\* thread that was indexed under old's key or under new's key is returned by
\* GetConversationsByAddress(new), the moved ones with new as their anchor;
\* GetConversationsByAddress(old) returns nothing unless the two keys are
\* equal; and no thread leaves the address index.
C35_MoveKeepsEveryThread ==
    [][cmCall'.method = "UpdateAddressLocation" =>
          LET oldKey == AddressKey(cmCall'.oldAddr)
              newKey == AddressKey(cmCall'.newAddr)
              atNew == GetConversationsByAddress(manager', cmCall'.newAddr)
              atOld == GetConversationsByAddress(manager', cmCall'.oldAddr)
              found == {atNew[i].ID : i \in 1..Len(atNew)}
          IN  /\ IndexedUnder(manager, oldKey) \cup IndexedUnder(manager, newKey)
                     \subseteq found
              /\ \A i \in 1..Len(atNew) :
                     atNew[i].ID \in IndexedUnder(manager, oldKey)
                         => atNew[i].AnchorAddress = cmCall'.newAddr
              /\ oldKey # newKey => atOld = <<>>
              /\ \A key \in DOMAIN manager.addressIndex :
                     \A id \in IndexedUnder(manager, key) :
                         \E other \in DOMAIN manager'.addressIndex :
                             id \in IndexedUnder(manager', other)]_vars

(* ------------------- claims: constructs of an address ------------------ *)

\* Every document the engine holds is stored as it is, so the run that
\* changed it last went on to IndexDocument.
AllIndexed(e) ==
    \A id \in DOMAIN e.documents :
        id \in DOMAIN e.store.documents /\ e.store.documents[id] = e.documents[id]

\* The construct is in the construct map of one of the engine's documents.
IsLive(e, c) ==
    \E id \in DOMAIN e.documents :
        /\ Key(c.Position) \in DOMAIN e.documents[id].Constructs
        /\ e.documents[id].Constructs[Key(c.Position)].ID = c.ID

\* C36: the construct set of an address holds only constructs that are live
\* in an indexed document: an address created over a range after the engine
\* has processed the delete of a construct in that range, and has indexed
\* the document again, does not list that construct.
C36_AddressListsLiveConstructs ==
    [][(/\ engCall'.method = "CreateStableAddress"
        /\ engCall'.err = Nil
        /\ AllIndexed(engine)) =>
          LET key == AddressKey(NewStableAddress(Repository, "o1", EngRange))
          IN  \A c \in engine'.addressResolver.addressIndex[key].Constructs :
                  IsLive(engine', c)]_vars

(* ------------------- claims: a connection being closed ----------------- *)

\* C37: SendMessage on a connection that has been closed (Close and
\* SendMessage exclude each other, so a concurrent Close came before or comes
\* after) returns ErrConnectionClosed and attempts no send on the closed
\* sendChan, whichever case the select takes; a second Close closes nothing
\* again and returns nil.
C37_SendAfterCloseIsRefused ==
    [][/\ (bcCall'.method = "SendMessage" /\ clients[bcCall'.client].closed)
           => (bcCall'.err = ErrConnectionClosed /\ clients' = clients)
       /\ (bcCall'.method = "Close" /\ clients[bcCall'.client].closed)
           => (bcCall'.err = Nil /\ clients' = clients)]_vars

(* ------------------- claims: creating an address again ----------------- *)

\* C38: CreateAddress leaves an existing record as it is: when an address of
\* the same creating operation and range exists (under the same or another
\* repository id), its movement log, valid flag and current range are what
\* they were; and addresses that differ in their repository resolve to
\* records of their own.
C38_CreateKeepsExistingRecords ==
    [][(resCall'.method = "CreateAddress" /\ resCall'.err = Nil) =>
          LET made == resCall'.addr
              index == resolver.addressIndex
          IN  /\ \A k \in DOMAIN index :
                     (/\ index[k].Address.OperationID = made.OperationID
                      /\ index[k].Address.PositionRange = made.PositionRange) =>
                         LET now == ResolveAddress(resolver', index[k].Address)
                         IN  /\ now.err = Nil
                             /\ now.value.MovementHistory = index[k].MovementHistory
                             /\ now.value.IsValid = index[k].IsValid
                             /\ now.value.CurrentRange = index[k].CurrentRange
              /\ \A k \in DOMAIN index :
                     index[k].Address.Repository # made.Repository =>
                         /\ ResolveAddress(resolver', index[k].Address).value.Address
                                = index[k].Address
                         /\ ResolveAddress(resolver', made).value.Address = made]_vars

(* ------------------- claims: clients and their presence ---------------- *)

\* No AddClient or RemoveClient call is under way.
Quiescent(gs) == \A g \in Threads : gs[g].pc \in {"idle", "done"}

\* C39: when the concurrent AddClient and RemoveClient calls have all
\* completed, the engine's client map and the presence tracker hold the
\* same client ids; a RemoveClient of an id that is not in the client map
\* returns ErrClientNotFound and changes neither.
C39_ClientsMatchPresence ==
    [][/\ Quiescent(goroutines') => registry'.clients = registry'.presence
       /\ \A g \in Threads :
              (/\ goroutines[g].pc = "idle"
               /\ goroutines'[g].method = "RemoveClient"
               /\ goroutines'[g].client \notin registry.clients)
                  => /\ goroutines'[g].err = ErrClientNotFound
                     /\ goroutines'[g].pc = "done"
                     /\ registry' = registry]_vars

====
